---- MODULE Spec2Model ----
(***************************************************************************)
(* A model of prefect's settings engine (src/src/prefect/settings.py):     *)
(* Settings snapshots resolved from keyword arguments, the process         *)
(* environment and declared defaults; the from-environment and defaults    *)
(* caches; profiles and profile collections; the profiles files; and the   *)
(* settings context stack with profile / root activation.  Further         *)
(* specifications cover the cache key of the from-environment cache,       *)
(* threads that resolve settings concurrently, per-thread context stacks,  *)
(* profile collections that share Profile objects, and the debug mode and  *)
(* logging settings with the root validator.                               *)
(***************************************************************************)
EXTENDS Integers, Sequences, FiniteSets, TLC

VARIABLES
    os_environ,       \* os.environ restricted to the setting variables: name -> wire string or NoVar
    FROM_ENV_CACHE,   \* _FROM_ENV_CACHE: cache key -> Settings
    DEFAULTS_CACHE,   \* _DEFAULTS_CACHE: {} (None) or {Settings}
    settings,         \* a Settings object held by the caller (a local `settings = ...`)
    env_changes,      \* number of os.environ mutations made so far (bounded)
    call,             \* the last operation applied, with its arguments (NoCall after any other step)
    profiles,         \* a ProfilesCollection held by the caller (a local `profiles = ...`)
    user_file,        \* the file at PREFECT_PROFILES_PATH: NoFile or [active, profiles]
    PREFECT_PROFILE,  \* the PREFECT_PROFILE environment variable: a name or NoVar
    stack,            \* the entered ProfileContext objects of the call stack, innermost last
    sys_argv,         \* sys.argv
    GLOBAL_SETTINGS_CM, \* prefect.context.GLOBAL_SETTINGS_CM: {} (None) or {the entered context manager}
    root_calls,       \* calls of enter_root_settings_context made so far (bounded)
    use_profile_calls, \* calls of use_profile made by root activation
    enters,           \* __enter__ calls made by root activation
    environ_keys,     \* the keys of os.environ in insertion order (the order items() yields)
    hash_collision,   \* the tuples this process's hash() maps to one value: {} or a pair
    resolved,         \* history: environment content -> cache key of the first get_settings_from_env for it
    threads,          \* the concurrently running call stacks: position, locals and context of each
    environ_binding,  \* what the name os.environ is bound to: the process environment or a {}
    heap,             \* the Profile objects by address
    collections       \* the ProfilesCollection objects holding addresses of Profile objects

settings_vars == <<os_environ, FROM_ENV_CACHE, DEFAULTS_CACHE, settings, env_changes>>
profile_vars == <<profiles, user_file, PREFECT_PROFILE>>
ctx_vars == <<stack, sys_argv, GLOBAL_SETTINGS_CM, root_calls, use_profile_calls, enters>>
hash_vars == <<hash_collision, resolved>>
thread_vars == <<threads, environ_binding>>
heap_vars == <<heap, collections>>
other_vars == <<hash_vars, thread_vars, heap_vars>>

vars == <<settings_vars, environ_keys, call, profile_vars, ctx_vars, other_vars>>

-----------------------------------------------------------------------------
(* Bounds *)

MaxEnvChanges == 1

-----------------------------------------------------------------------------
(* Values.  Raw values are "None" or one of Vals; an environment variable  *)
(* holds the string form of a value.                                       *)

None == "None"
Vals == {"1", "2"}
RawVals == Vals \cup {None}

NoVar == "<unset>"

\* The values the modelled callers pass as updates and as set_defaults
UpdateVals == {None, "2"}
SetDefaultVals == {"2"}

\* str(value): the string written to an environment variable
str(v) == IF v = "1" THEN "'1'" ELSE IF v = "2" THEN "'2'" ELSE "'None'"

\* pydantic's parse of an environment string into the field's type
parse(s) == IF s = "'1'" THEN "1" ELSE IF s = "'2'" THEN "2" ELSE "None-string"

\* The strings the modelled environment holds
EnvVals == {str("1")}

\* The declared settings of the model: one whose default is None and one
\* nullable setting whose default is a value.
SETTING_VARIABLES == {"PREFECT_API_URL", "PREFECT_ORION_DATABASE_TIMEOUT"}

PREFECT_API_URL_default == None
PREFECT_ORION_DATABASE_TIMEOUT_default == "1"

default(n) ==
    IF n = "PREFECT_API_URL" THEN PREFECT_API_URL_default
    ELSE PREFECT_ORION_DATABASE_TIMEOUT_default

Environs == [SETTING_VARIABLES -> EnvVals \cup {NoVar}]

EmptyEnviron == [n \in SETTING_VARIABLES |-> NoVar]

\* Mappings from some of the settings to values (keyword arguments, updates, ...)
Mappings(V) == UNION {[S -> V] : S \in SUBSET SETTING_VARIABLES}

\* {**f, **g}: g's entries override f's
DictMerge(f, g) ==
    [k \in (DOMAIN f) \cup (DOMAIN g) |-> IF k \in DOMAIN g THEN g[k] ELSE f[k]]

-----------------------------------------------------------------------------
(* Settings snapshots *)

\* The names the environment provides a value for
EnvNames(env) == {n \in SETTING_VARIABLES : env[n] # NoVar}

\* Settings(**kwargs): pydantic BaseSettings construction.  Keyword arguments
\* win over environment variables, which win over the declared defaults; a
\* field is "set" when a keyword argument or the environment provided it.
Settings(kwargs, env) ==
    [values |-> [n \in SETTING_VARIABLES |->
                    IF n \in DOMAIN kwargs THEN kwargs[n]
                    ELSE IF n \in EnvNames(env) THEN parse(env[n])
                    ELSE default(n)],
     fields_set |-> (DOMAIN kwargs) \cup EnvNames(env)]

\* self.dict(exclude_unset=True, exclude=names)
dict_exclude_unset(self, exclude) ==
    [n \in self.fields_set \ exclude |-> self.values[n]]

\* copy_with_update with the source's set values laid over the updates
copy_with_update_under(self, updates, set_defaults, restore_defaults, env) ==
    Settings(DictMerge(DictMerge(set_defaults, updates),
                       dict_exclude_unset(self, restore_defaults)),
             env)

\* Settings.copy_with_update, run with the process environment `env`
copy_with_update(self, updates, set_defaults, restore_defaults, env) ==
    Settings(DictMerge(DictMerge(set_defaults,
                                 dict_exclude_unset(self, restore_defaults)),
                       updates),
             env)

\* Settings.to_environment_variables(exclude_unset): the raw values (no
\* value_callback) cast to strings, null values dropped, restricted to the set
\* fields when exclude_unset is given
to_environment_variables(self, exclude_unset) ==
    [n \in SETTING_VARIABLES |->
        IF (exclude_unset => n \in self.fields_set) /\ self.values[n] # None
        THEN str(self.values[n])
        ELSE NoVar]

\* The environment variable names and strings of the model, numbered by
\* their position
ENV_KEYS ==
    <<"PREFECT_API_URL", "PREFECT_ORION_DATABASE_TIMEOUT", "PREFECT_DEBUG_MODE",
      "PREFECT_LOGGING_LEVEL", "PREFECT_LOGGING_ORION_BATCH_SIZE",
      "PREFECT_LOGGING_ORION_MAX_LOG_SIZE">>
ENV_STRINGS == <<"'1'", "'2'", "True", "ERROR", "500000", "5000000">>

IndexOf(seq, x) == CHOOSE i \in DOMAIN seq : seq[i] = x

\* The keys of `env` in the order ENV_KEYS lists them: the insertion order of
\* an environment whose variables were exported in that order
declaration_order(env) == SelectSeq(ENV_KEYS, LAMBDA k : k \in DOMAIN env /\ env[k] # NoVar)

\* tuple((key, value) for key, value in os.environ.items()): the items in
\* insertion order (`env` is os.environ, or the {} that get_default_settings
\* puts in its place)
items(env) ==
    LET ks == SelectSeq(environ_keys, LAMBDA k : env[k] # NoVar)
    IN [i \in DOMAIN ks |-> <<ks[i], env[ks[i]]>>]

\* A number for every tuple of items, no two tuples sharing one (the tuple
\* read as a numeral whose digits are its items)
item_digit(item) ==
    (IndexOf(ENV_KEYS, item[1]) - 1) * Len(ENV_STRINGS) + IndexOf(ENV_STRINGS, item[2])

RECURSIVE tuple_number(_)
tuple_number(t) ==
    IF t = <<>> THEN 0
    ELSE tuple_number(SubSeq(t, 1, Len(t) - 1)) * (Len(ENV_KEYS) * Len(ENV_STRINGS) + 1)
         + item_digit(t[Len(t)])

\* hash(t) of a tuple of items: an integer that depends on the tuple's items
\* and their order.  Which distinct tuples hash alike is fixed per process
\* (string hashes are seeded at start-up): hash_collision holds them.
hash(t) ==
    IF t \in hash_collision
    THEN tuple_number(CHOOSE u \in hash_collision :
                         \A w \in hash_collision : tuple_number(u) <= tuple_number(w))
    ELSE tuple_number(t)

\* cache_key = hash(tuple((key, value) for key, value in os.environ.items()))
cache_key(env) == hash(items(env))

\* get_settings_from_env: the cache after the call, and the object returned
from_env_cache_after(cache, env) ==
    IF cache_key(env) \in DOMAIN cache THEN cache
    ELSE [k \in (DOMAIN cache) \cup {cache_key(env)} |->
            IF k = cache_key(env) THEN Settings(<<>>, env) ELSE cache[k]]

get_settings_from_env(cache, env) == from_env_cache_after(cache, env)[cache_key(env)]

-----------------------------------------------------------------------------
(* Profiles and profile collections.  An operation returns Return(value)   *)
(* or Raise(error).                                                        *)

Return(v) == [raised |-> "", value |-> v]
Raise(e) == [raised |-> e]

DEFAULT_PROFILES_PATH == "prefect/profiles.toml"
USER_PROFILES_PATH == "~/.prefect/profiles.toml"

\* Profile(name=..., settings=..., source=...)
Profile(name, profile_settings, source) ==
    [name |-> name, settings |-> profile_settings, source |-> source]

\* ProfilesCollection(profiles, active): a later profile of the same name
\* replaces an earlier one; the active name is stored as given
ProfilesCollection(profile_seq, active) ==
    LET keys == {profile_seq[i].name : i \in DOMAIN profile_seq}
        last(n) == CHOOSE i \in DOMAIN profile_seq :
                      /\ profile_seq[i].name = n
                      /\ \A j \in DOMAIN profile_seq : profile_seq[j].name = n => j <= i
    IN [profiles_by_name |-> [n \in keys |-> profile_seq[last(n)]],
        active_name |-> active]

\* ProfilesCollection.names
names(self) == DOMAIN self.profiles_by_name

RECURSIVE SeqOfSet(_)
SeqOfSet(S) ==
    IF S = {} THEN <<>>
    ELSE LET x == CHOOSE y \in S : TRUE IN <<x>> \o SeqOfSet(S \ {x})

\* self.profiles_by_name.values()
values(self) ==
    LET ns == SeqOfSet(names(self))
    IN [i \in DOMAIN ns |-> self.profiles_by_name[ns[i]]]

\* Drop null keys to restore to default
drop_null_keys(new_settings) ==
    [k \in {j \in DOMAIN new_settings : new_settings[j] # None} |-> new_settings[k]]

\* set_active without the check of the name
set_active_unchecked(self, name) ==
    Return([self EXCEPT !.active_name = name])

\* ProfilesCollection.set_active
set_active(self, name) ==
    IF name # None /\ name \notin names(self)
    THEN Raise("ValueError: Unknown profile name")
    ELSE Return([self EXCEPT !.active_name = name])

\* ProfilesCollection.update_active_profile
update_active_profile(self, new) ==
    IF self.active_name = None
    THEN Raise("RuntimeError: No active profile set in collection.")
    ELSE IF self.active_name \notin names(self)
    THEN Raise("KeyError")
    ELSE LET active_profile == self.profiles_by_name[self.active_name]
         IN Return([self EXCEPT !.profiles_by_name[self.active_name] =
                        Profile(active_profile.name,
                                drop_null_keys(DictMerge(active_profile.settings, new)),
                                None)])

\* update_profile with the new map taking the place of the existing one
update_profile_replacing(self, profile) ==
    LET new_profile ==
            IF profile.name \in names(self)
            THEN Profile(profile.name, drop_null_keys(profile.settings), profile.source)
            ELSE profile
    IN [self EXCEPT !.profiles_by_name =
            [n \in names(self) \cup {new_profile.name} |->
                IF n = new_profile.name THEN new_profile ELSE self.profiles_by_name[n]]]

\* ProfilesCollection.update_profile
update_profile(self, profile) ==
    LET new_profile ==
            IF profile.name \in names(self)
            THEN Profile(profile.name,
                         drop_null_keys(DictMerge(self.profiles_by_name[profile.name].settings,
                                                  profile.settings)),
                         profile.source)
            ELSE profile
    IN [self EXCEPT !.profiles_by_name =
            [n \in names(self) \cup {new_profile.name} |->
                IF n = new_profile.name THEN new_profile ELSE self.profiles_by_name[n]]]

\* remove_profile as profiles_by_name.pop(name, None)
remove_profile_if_present(self, name) ==
    Return([self EXCEPT !.profiles_by_name =
               [n \in names(self) \ {name} |-> self.profiles_by_name[n]]])

\* ProfilesCollection.remove_profile: profiles_by_name.pop(name), a
\* KeyError(name) when the name is absent
remove_profile(self, name) ==
    IF name \notin names(self)
    THEN Raise("KeyError: " \o name)
    ELSE Return([self EXCEPT !.profiles_by_name =
                    [n \in names(self) \ {name} |-> self.profiles_by_name[n]]])

\* with_new_profiles with this collection's profiles laid over the other's
with_new_profiles_under(self, other) ==
    ProfilesCollection(values(other) \o values(self),
                       IF other.active_name # None /\ other.active_name # ""
                       THEN other.active_name ELSE self.active_name)

\* ProfilesCollection.with_new_profiles; `other.active_name or self.active_name`
with_new_profiles(self, other) ==
    ProfilesCollection(values(self) \o values(other),
                       IF other.active_name # None /\ other.active_name # ""
                       THEN other.active_name ELSE self.active_name)

\* ProfilesCollection.without_profile_source
without_profile_source(self, path) ==
    ProfilesCollection(SelectSeq(values(self), LAMBDA profile : profile.source # path),
                       self.active_name)

\* The file at DEFAULT_PROFILES_PATH: an empty "default" profile, active
NoFile == [exists |-> FALSE]
File(active, file_profiles) == [exists |-> TRUE, active |-> active, profiles |-> file_profiles]
DefaultProfilesFile == File("default", [n \in {"default"} |-> <<>>])

\* Profile.map_names_to_settings skipping the names it does not know
map_names_to_settings_known(value) ==
    Return([k \in (DOMAIN value) \cap SETTING_VARIABLES |-> value[k]])

\* Profile.map_names_to_settings: the validator of Profile.settings
map_names_to_settings(value) ==
    IF \E k \in DOMAIN value : k \notin SETTING_VARIABLES
    THEN Raise("ValueError: Unknown setting "
                 \o (CHOOSE k \in DOMAIN value : k \notin SETTING_VARIABLES))
    ELSE Return(value)

\* The error _read_profiles_from(path) raises for `file`, "" if it raises none
read_error(file) ==
    LET bad == {n \in DOMAIN file.profiles :
                   map_names_to_settings(file.profiles[n]).raised # ""}
    IN IF bad = {} THEN ""
       ELSE map_names_to_settings(file.profiles[CHOOSE n \in bad : TRUE]).raised

\* _read_profiles_from(path), `file` being what is at `path` (a file that
\* read_error has no error for)
read_profiles_from(file, path) ==
    LET ns == SeqOfSet(DOMAIN file.profiles)
    IN ProfilesCollection(
           [i \in DOMAIN ns |->
               Profile(ns[i], map_names_to_settings(file.profiles[ns[i]]).value, path)],
           file.active)

\* load_profiles without the PREFECT_PROFILE override
load_profiles_from_files(file, active_profile_from_env) ==
    LET default_profiles == read_profiles_from(DefaultProfilesFile, DEFAULT_PROFILES_PATH)
    IN Return(IF file.exists
              THEN with_new_profiles(default_profiles,
                                     read_profiles_from(file, USER_PROFILES_PATH))
              ELSE default_profiles)

\* load_profiles(), with the user's file and the PREFECT_PROFILE variable
load_profiles(file, active_profile_from_env) ==
    LET default_profiles == read_profiles_from(DefaultProfilesFile, DEFAULT_PROFILES_PATH)
        loaded == IF file.exists
                  THEN with_new_profiles(default_profiles,
                                         read_profiles_from(file, USER_PROFILES_PATH))
                  ELSE default_profiles
    IN IF file.exists /\ read_error(file) # "" THEN Raise(read_error(file))
       ELSE IF active_profile_from_env # NoVar
       THEN IF active_profile_from_env \notin names(loaded)
            THEN Raise("ValueError: Environment variable 'PREFECT_PROFILE' is set to an unknown profile name: "
                         \o active_profile_from_env)
            ELSE Return([loaded EXCEPT !.active_name = active_profile_from_env])
       ELSE Return(loaded)

-----------------------------------------------------------------------------
(* The record of the last call *)

NoCall == [op |-> "none"]

-----------------------------------------------------------------------------
(* Specification Spec: a caller holding a Settings object, the process     *)
(* environment and the two caches.                                         *)

\* A process whose hash() gives no two of the environments one value, with a
\* single call stack and no profile collections built
InitNoOther ==
    /\ hash_collision = {}
    /\ resolved = <<>>
    /\ threads = <<>>
    /\ environ_binding = "environ"
    /\ heap = <<>>
    /\ collections = <<>>

\* The module state after import and a first `settings = get_settings_from_env()`
InitSettings ==
    /\ os_environ \in Environs
    /\ environ_keys = declaration_order(os_environ)
    /\ InitNoOther
    /\ FROM_ENV_CACHE = from_env_cache_after(<<>>, os_environ)
    /\ DEFAULTS_CACHE = {}
    /\ settings = get_settings_from_env(<<>>, os_environ)
    /\ env_changes = 0
    /\ call = NoCall

\* No profiles file, no collection loaded, PREFECT_PROFILE unset
InitNoProfiles ==
    /\ profiles = ProfilesCollection(<<>>, None)
    /\ user_file = NoFile
    /\ PREFECT_PROFILE = NoVar

\* No context entered, no root activation made
InitNoContext ==
    /\ stack = <<>>
    /\ sys_argv = <<"python">>
    /\ GLOBAL_SETTINGS_CM = {}
    /\ root_calls = 0
    /\ use_profile_calls = 0
    /\ enters = 0

Init == InitSettings /\ InitNoProfiles /\ InitNoContext

\* os.environ[n] = s  (monkeypatch.setenv)
SetEnvWithin(changes) ==
    \E n \in SETTING_VARIABLES, s \in EnvVals :
        /\ env_changes < changes
        /\ os_environ[n] # s
        /\ os_environ' = [os_environ EXCEPT ![n] = s]
        /\ environ_keys' = IF os_environ[n] = NoVar THEN Append(environ_keys, n)
                           ELSE environ_keys
        /\ env_changes' = env_changes + 1
        /\ call' = NoCall
        /\ UNCHANGED <<FROM_ENV_CACHE, DEFAULTS_CACHE, settings, profile_vars, ctx_vars,
                       other_vars>>

\* del os.environ[n]  (monkeypatch.delenv)
DelEnvWithin(changes) ==
    \E n \in SETTING_VARIABLES :
        /\ env_changes < changes
        /\ os_environ[n] # NoVar
        /\ os_environ' = [os_environ EXCEPT ![n] = NoVar]
        /\ environ_keys' = SelectSeq(environ_keys, LAMBDA k : k # n)
        /\ env_changes' = env_changes + 1
        /\ call' = NoCall
        /\ UNCHANGED <<FROM_ENV_CACHE, DEFAULTS_CACHE, settings, profile_vars, ctx_vars,
                       other_vars>>

SetEnv == SetEnvWithin(MaxEnvChanges)
DelEnv == DelEnvWithin(MaxEnvChanges)

\* settings = get_settings_from_env()
GetSettingsFromEnv ==
    /\ FROM_ENV_CACHE' = from_env_cache_after(FROM_ENV_CACHE, os_environ)
    /\ settings' = get_settings_from_env(FROM_ENV_CACHE, os_environ)
    /\ call' = [op |-> "get_settings_from_env"]
    /\ UNCHANGED <<os_environ, environ_keys, DEFAULTS_CACHE, env_changes, profile_vars,
                   ctx_vars, other_vars>>

\* settings = get_default_settings(): os.environ is swapped for {} around the
\* resolution and put back
GetDefaultSettings ==
    /\ IF DEFAULTS_CACHE = {}
       THEN /\ FROM_ENV_CACHE' = from_env_cache_after(FROM_ENV_CACHE, EmptyEnviron)
            /\ DEFAULTS_CACHE' = {get_settings_from_env(FROM_ENV_CACHE, EmptyEnviron)}
       ELSE UNCHANGED <<FROM_ENV_CACHE, DEFAULTS_CACHE>>
    /\ settings' \in DEFAULTS_CACHE'
    /\ call' = [op |-> "get_default_settings"]
    /\ UNCHANGED <<os_environ, environ_keys, env_changes, profile_vars, ctx_vars,
                   other_vars>>

\* settings = settings.copy_with_update(updates, set_defaults, restore_defaults)
CopyWithUpdate ==
    \E updates \in Mappings(UpdateVals), set_defaults \in Mappings(SetDefaultVals),
       restore_defaults \in SUBSET SETTING_VARIABLES :
        /\ settings' = copy_with_update(settings, updates, set_defaults,
                                        restore_defaults, os_environ)
        /\ call' = [op |-> "copy_with_update", base |-> settings,
                    updates |-> updates, set_defaults |-> set_defaults,
                    restore_defaults |-> restore_defaults]
        /\ UNCHANGED <<os_environ, environ_keys, FROM_ENV_CACHE, DEFAULTS_CACHE,
                       env_changes, profile_vars, ctx_vars, other_vars>>

Next ==
    \/ SetEnv
    \/ DelEnv
    \/ GetSettingsFromEnv
    \/ GetDefaultSettings
    \/ CopyWithUpdate

Spec == Init /\ [][Next]_vars

-----------------------------------------------------------------------------
(* Specification SpecCache: get_settings_from_env under an environment     *)
(* whose variables are set and deleted between the calls, in a process     *)
(* whose hash() may give two tuples of items one value.  An object of the  *)
(* cache is identified by the key it is stored under: no entry of the      *)
(* cache is ever replaced or removed by a single call stack.               *)

MaxCacheEnvChanges == 3

\* The insertion orders of the variables `env` sets
Orders(env) ==
    {o \in UNION {[1..n -> EnvNames(env)] : n \in 0..Cardinality(SETTING_VARIABLES)} :
        /\ Len(o) = Cardinality(EnvNames(env))
        /\ \A i, j \in DOMAIN o : i # j => o[i] # o[j]}

\* The tuples of items an environment of the model can have
EnvTuples ==
    UNION {{[i \in DOMAIN o |-> <<o[i], env[o[i]]>>] : o \in Orders(env)} : env \in Environs}

\* What hash() may do on these tuples: give every tuple a value of its own,
\* or give two of them one value
HashCollisions == {{}} \cup {{t, u} : t \in EnvTuples, u \in EnvTuples}

InitCache ==
    /\ os_environ \in Environs
    /\ environ_keys \in Orders(os_environ)
    /\ hash_collision \in {c \in HashCollisions : Cardinality(c) # 1}
    /\ FROM_ENV_CACHE = from_env_cache_after(<<>>, os_environ)
    /\ DEFAULTS_CACHE = {}
    /\ settings = get_settings_from_env(<<>>, os_environ)
    /\ resolved = [e \in {os_environ} |-> cache_key(os_environ)]
    /\ env_changes = 0
    /\ call = NoCall
    /\ threads = <<>>
    /\ environ_binding = "environ"
    /\ heap = <<>>
    /\ collections = <<>>
    /\ InitNoProfiles
    /\ InitNoContext

\* settings = get_settings_from_env(), the key of the object returned being
\* recorded for the first call made with this environment content
ResolveFromEnv ==
    /\ FROM_ENV_CACHE' = from_env_cache_after(FROM_ENV_CACHE, os_environ)
    /\ settings' = get_settings_from_env(FROM_ENV_CACHE, os_environ)
    /\ resolved' = IF os_environ \in DOMAIN resolved THEN resolved
                   ELSE [e \in (DOMAIN resolved) \cup {os_environ} |->
                            IF e = os_environ THEN cache_key(os_environ) ELSE resolved[e]]
    /\ call' = [op |-> "get_settings_from_env", cache_key |-> cache_key(os_environ),
                hit |-> cache_key(os_environ) \in DOMAIN FROM_ENV_CACHE]
    /\ UNCHANGED <<os_environ, environ_keys, DEFAULTS_CACHE, env_changes, profile_vars,
                   ctx_vars, hash_collision, thread_vars, heap_vars>>

NextCache ==
    \/ SetEnvWithin(MaxCacheEnvChanges)
    \/ DelEnvWithin(MaxCacheEnvChanges)
    \/ ResolveFromEnv

SpecCache == InitCache /\ [][NextCache]_vars

-----------------------------------------------------------------------------
(* Specification SpecProfiles: a caller holding a ProfilesCollection, the  *)
(* user's profiles file and the PREFECT_PROFILE variable.                  *)

ProfileNames == {"default", "foo"}

\* A name no profile of the model has
MissingName == "bar"

\* The settings maps callers pass in a Profile (None asks for deletion)
ProfileSettings == Mappings(UpdateVals)

\* The files found at PREFECT_PROFILES_PATH
UserFiles ==
    {NoFile,
     File(None, [n \in {"foo"} |-> [k \in {"PREFECT_API_URL"} |-> "2"]]),
     File("foo", [n \in ProfileNames |->
                    IF n = "foo" THEN <<>>
                    ELSE [k \in {"PREFECT_ORION_DATABASE_TIMEOUT"} |-> "2"]])}

\* The Profile objects callers build
ProfileArgs ==
    {Profile(n, m, None) : n \in ProfileNames, m \in ProfileSettings}

\* The Profile objects a collection is constructed from
ConstructArgs ==
    {Profile(n, m, None) : n \in ProfileNames,
                           m \in {<<>>, [k \in {"PREFECT_API_URL"} |-> "2"]}}

InitProfiles ==
    /\ os_environ = EmptyEnviron
    /\ environ_keys = declaration_order(os_environ)
    /\ InitNoOther
    /\ FROM_ENV_CACHE = from_env_cache_after(<<>>, os_environ)
    /\ DEFAULTS_CACHE = {}
    /\ settings = get_settings_from_env(<<>>, os_environ)
    /\ env_changes = 0
    /\ call = NoCall
    /\ profiles = ProfilesCollection(<<>>, None)
    /\ user_file \in UserFiles
    /\ PREFECT_PROFILE \in {NoVar, "foo", MissingName}
    /\ InitNoContext

\* What an operation on `profiles` leaves alone
ProfilesFrame ==
    UNCHANGED <<settings_vars, environ_keys, user_file, PREFECT_PROFILE, ctx_vars,
                other_vars>>

\* The step of an operation that returned `res` for the collection
Outcome(op, res) ==
    /\ profiles' = IF res.raised = "" THEN res.value ELSE profiles
    /\ call' = [op |-> op, raised |-> res.raised]
    /\ ProfilesFrame

\* profiles = ProfilesCollection(profiles=[...], active=...), the active name
\* being None or one of the profiles given
Construct ==
    \E seq \in {<<>>} \cup {<<p>> : p \in ConstructArgs}
                     \cup {<<p, q>> : p \in ConstructArgs, q \in ConstructArgs} :
    \E active \in {None} \cup {seq[i].name : i \in DOMAIN seq} :
        Outcome("ProfilesCollection", Return(ProfilesCollection(seq, active)))

\* profiles.set_active(name)
SetActive ==
    \E name \in ProfileNames \cup {MissingName, None} :
        /\ profiles' = IF set_active(profiles, name).raised = ""
                       THEN set_active(profiles, name).value ELSE profiles
        /\ call' = [op |-> "set_active", raised |-> set_active(profiles, name).raised,
                    name |-> name]
        /\ ProfilesFrame

\* profiles.update_active_profile(settings)
UpdateActiveProfile ==
    \E new \in ProfileSettings :
        Outcome("update_active_profile", update_active_profile(profiles, new))

\* profiles.update_profile(profile)
UpdateProfile ==
    \E profile \in ProfileArgs :
        /\ profiles' = update_profile(profiles, profile)
        /\ call' = [op |-> "update_profile", raised |-> "", profile |-> profile,
                    existing |-> profile.name \in names(profiles)]
        /\ ProfilesFrame

\* profiles.remove_profile(name)
RemoveProfile ==
    \E name \in ProfileNames \cup {MissingName} :
        /\ profiles' = IF remove_profile(profiles, name).raised = ""
                       THEN remove_profile(profiles, name).value ELSE profiles
        /\ call' = [op |-> "remove_profile", raised |-> remove_profile(profiles, name).raised,
                    name |-> name]
        /\ ProfilesFrame

\* A collection read from a file whose active key is the empty string
EmptyActiveCollection ==
    read_profiles_from(File("", [n \in {"foo"} |-> [k \in {"PREFECT_API_URL"} |-> "2"]]),
                       USER_PROFILES_PATH)

\* profiles = profiles.with_new_profiles(other), other read from the user's
\* file or from a file whose active key is the empty string
WithNewProfiles ==
    \E other \in {EmptyActiveCollection}
                 \cup (IF user_file.exists
                       THEN {read_profiles_from(user_file, USER_PROFILES_PATH)} ELSE {}) :
        /\ profiles' = with_new_profiles(profiles, other)
        /\ call' = [op |-> "with_new_profiles", raised |-> "", other |-> other]
        /\ ProfilesFrame

\* profiles = profiles.without_profile_source(path)
WithoutProfileSource ==
    \E path \in {DEFAULT_PROFILES_PATH, USER_PROFILES_PATH} :
        Outcome("without_profile_source", Return(without_profile_source(profiles, path)))

\* profiles = load_profiles()
LoadProfiles ==
    Outcome("load_profiles", load_profiles(user_file, PREFECT_PROFILE))

NextProfiles ==
    \/ Construct
    \/ SetActive
    \/ UpdateActiveProfile
    \/ UpdateProfile
    \/ RemoveProfile
    \/ WithNewProfiles
    \/ WithoutProfileSource
    \/ LoadProfiles

SpecProfiles == InitProfiles /\ [][NextProfiles]_vars

-----------------------------------------------------------------------------
(* The settings context stack (prefect.context): scopes entered by        *)
(* temporary_settings and use_profile, and root activation.                *)

MaxDepth == 3
MaxEnvDepth == 2

\* ProfileContext(name=..., settings=...) once entered: `before` is what the
\* context variable's token restores on exit, `root` marks the context
\* entered by root activation
ProfileContext(name, new_settings, before, root) ==
    [name |-> name, settings |-> new_settings, before |-> before, root |-> root]

\* get_current_settings reading the outermost entered context
get_current_settings_outermost(stk, cache, env) ==
    IF stk # <<>> THEN stk[1].settings ELSE get_settings_from_env(cache, env)

\* get_current_settings(): the innermost entered context's settings or, if
\* none is entered, get_settings_from_env()
get_current_settings(stk, cache, env) ==
    IF stk # <<>> THEN stk[Len(stk)].settings ELSE get_settings_from_env(cache, env)

\* temporary_settings built on, and restoring, the settings of the environment
temporary_settings_from_env(stk, cache, env, updates, set_defaults, restore_defaults) ==
    LET current == get_settings_from_env(cache, env)
    IN ProfileContext("temporary",
                      copy_with_update(current, updates, set_defaults, restore_defaults, env),
                      current, FALSE)

\* temporary_settings(updates, set_defaults, restore_defaults): the context it enters
temporary_settings(stk, cache, env, updates, set_defaults, restore_defaults) ==
    LET current == get_current_settings(stk, cache, env)
    IN ProfileContext("temporary",
                      copy_with_update(current, updates, set_defaults, restore_defaults, env),
                      current, FALSE)

\* use_profile(profile): the context it enters, the profile's settings laid
\* over the current settings
use_profile(stk, cache, env, profile, root) ==
    LET current == get_current_settings(stk, cache, env)
    IN ProfileContext(profile.name,
                      copy_with_update(current, profile.settings, <<>>, {}, env),
                      current, root)

\* The (updates, set_defaults, restore_defaults) the modelled scopes are entered with
TemporaryArgs ==
    {<<[k \in {"PREFECT_API_URL"} |-> "2"], <<>>, {}>>,
     <<[k \in {"PREFECT_ORION_DATABASE_TIMEOUT"} |-> None], <<>>, {}>>,
     <<<<>>, [k \in {"PREFECT_ORION_DATABASE_TIMEOUT"} |-> "2"], {}>>,
     <<<<>>, <<>>, {"PREFECT_API_URL"}>>}

\* What entering or leaving a scope leaves alone
ScopeFrame ==
    UNCHANGED <<os_environ, environ_keys, DEFAULTS_CACHE, settings, env_changes,
                profile_vars, sys_argv, GLOBAL_SETTINGS_CM, root_calls,
                use_profile_calls, enters, other_vars>>

\* FROM_ENV_CACHE after get_current_settings()
CacheAfterRead ==
    FROM_ENV_CACHE' = IF stack = <<>> THEN from_env_cache_after(FROM_ENV_CACHE, os_environ)
                      ELSE FROM_ENV_CACHE

\* with temporary_settings(updates, set_defaults, restore_defaults): entered
TemporarySettings(depth) ==
    \E args \in TemporaryArgs :
        /\ Len(stack) < depth
        /\ stack' = Append(stack, temporary_settings(stack, FROM_ENV_CACHE, os_environ,
                                                     args[1], args[2], args[3]))
        /\ CacheAfterRead
        /\ call' = [op |-> "temporary_settings", raised |-> "", args |-> args]
        /\ ScopeFrame

\* with use_profile(name): entered, or an error for a name that is not loaded
UseProfile(depth) ==
    \E name \in ProfileNames \cup {MissingName} :
        LET loaded == load_profiles(user_file, PREFECT_PROFILE)
            found == loaded.raised = "" /\ name \in names(loaded.value)
        IN /\ Len(stack) < depth
           /\ IF found
              THEN /\ stack' = Append(stack,
                                      use_profile(stack, FROM_ENV_CACHE, os_environ,
                                                  loaded.value.profiles_by_name[name], FALSE))
                   /\ CacheAfterRead
                   /\ call' = [op |-> "use_profile", raised |-> "",
                               profile |-> loaded.value.profiles_by_name[name]]
              ELSE /\ UNCHANGED <<stack, FROM_ENV_CACHE>>
                   /\ call' = [op |-> "use_profile",
                               raised |-> IF loaded.raised # "" THEN loaded.raised
                                          ELSE "KeyError"]
           /\ ScopeFrame

\* Leaving the innermost with-block: its context is exited (the root
\* context is entered by hand and never exited)
Exit ==
    /\ stack # <<>>
    /\ ~stack[Len(stack)].root
    /\ stack' = SubSeq(stack, 1, Len(stack) - 1)
    /\ call' = [op |-> "exit", raised |-> "", context |-> stack[Len(stack)]]
    /\ UNCHANGED FROM_ENV_CACHE
    /\ ScopeFrame

\* Leaving the innermost with-block because its body raised: the context is
\* exited and the error goes on to the caller
ExitOnError ==
    /\ stack # <<>>
    /\ ~stack[Len(stack)].root
    /\ stack' = SubSeq(stack, 1, Len(stack) - 1)
    /\ call' = [op |-> "exit", raised |-> "error raised in the body",
                context |-> stack[Len(stack)]]
    /\ UNCHANGED FROM_ENV_CACHE
    /\ ScopeFrame

\* What a context object that is not entered holds for its token: nothing
\* to restore (no Settings object)
NoToken == [values |-> <<>>, fields_set |-> {}]

\* ContextModel.__enter__ without the check of the token
enter_context_again(ctx, current) ==
    Return([ctx EXCEPT !.before = current])

\* ContextModel.__enter__: the entered object, `current` being what the
\* context variable held
enter_context(ctx, current) ==
    IF ctx.before # NoToken THEN Raise("RuntimeError: Context already entered")
    ELSE Return([ctx EXCEPT !.before = current])

\* ContextModel.__exit__: the object with its token given up
exit_context(ctx) ==
    IF ctx.before = NoToken THEN Raise("RuntimeError: Asymmetric use of context")
    ELSE Return([ctx EXCEPT !.before = NoToken])

\* ContextModel.copy(): the same fields in an object that is not entered
copy_context(ctx) == [ctx EXCEPT !.before = NoToken, !.root = FALSE]

\* `with context:` for a context object that is entered already (`copied`
\* false) or for a copy of it (`copied` true)
EnterAgain ==
    \E i \in DOMAIN stack, copied \in BOOLEAN :
        LET ctx == IF copied THEN copy_context(stack[i]) ELSE stack[i]
            res == enter_context(ctx, get_current_settings(stack, FROM_ENV_CACHE, os_environ))
        IN /\ Len(stack) < MaxDepth
           /\ stack' = IF res.raised = "" THEN Append(stack, res.value) ELSE stack
           /\ call' = [op |-> "enter", raised |-> res.raised, copied |-> copied,
                       context |-> stack[i]]
           /\ UNCHANGED FROM_ENV_CACHE
           /\ ScopeFrame

\* context.__exit__() once more on the context object that was just exited
ExitAgain ==
    /\ call.op = "exit"
    /\ LET res == exit_context(exit_context(call.context).value)
       IN /\ stack' = IF res.raised = "" THEN SubSeq(stack, 1, Len(stack) - 1) ELSE stack
          /\ call' = [op |-> "exit again", raised |-> res.raised]
    /\ UNCHANGED FROM_ENV_CACHE
    /\ ScopeFrame

\* A process with some environment and some profiles file, nothing entered
InitCtx ==
    /\ InitSettings
    /\ profiles = ProfilesCollection(<<>>, None)
    /\ user_file \in UserFiles
    /\ PREFECT_PROFILE = NoVar
    /\ InitNoContext

NextCtx ==
    \/ TemporarySettings(MaxDepth)
    \/ UseProfile(MaxDepth)
    \/ Exit
    \/ ExitOnError
    \/ EnterAgain
    \/ ExitAgain

SpecCtx == InitCtx /\ [][NextCtx]_vars

\* The same process, whose environment variables may be set and deleted
\* while scopes are open
NextCtxEnv ==
    \/ TemporarySettings(MaxEnvDepth)
    \/ UseProfile(MaxEnvDepth)
    \/ Exit
    \/ SetEnv
    \/ DelEnv

SpecCtxEnv == InitCtx /\ [][NextCtxEnv]_vars

-----------------------------------------------------------------------------
(* Root activation (prefect.context.enter_root_settings_context) *)

MaxRootCalls == 3
MaxRootDepth == 2

\* The command lines the modelled processes are started with
CommandLines ==
    {<<"python">>,
     <<"/prefect", "--profile", "foo">>,
     <<"/prefect", "--profile", MissingName>>,
     <<"/prefect", "--profile">>,
     <<"foobar", "--profile", "foo">>}

\* sys.argv is the prefect CLI followed by `--profile <name>`
HasProfileOption(argv) ==
    /\ Len(argv) >= 3
    /\ argv[1] = "/prefect"
    /\ argv[2] = "--profile"

\* enter_root_settings_context without the check of GLOBAL_SETTINGS_CM
enter_root_settings_context_again(global_cm, argv, file, active_profile_from_env) ==
    LET loaded == load_profiles(file, active_profile_from_env)
        name == IF HasProfileOption(argv) THEN argv[3] ELSE loaded.value.active_name
    IN IF loaded.raised # "" THEN Raise(loaded.raised)
       ELSE IF name \notin names(loaded.value)
       THEN Raise("ValueError: Prefect profile " \o name \o " set by "
                    \o (IF HasProfileOption(argv) THEN "command line argument"
                        ELSE "environment variable") \o " not found")
       ELSE Return([activate |-> TRUE, profile |-> loaded.value.profiles_by_name[name]])

\* enter_root_settings_context(): nothing to do once GLOBAL_SETTINGS_CM is
\* set; otherwise the profile to activate, named by the command line, else
\* by the loaded collection's active name (PREFECT_PROFILE, else the user
\* file's active name, else the default file's "default")
enter_root_settings_context(global_cm, argv, file, active_profile_from_env) ==
    LET loaded == load_profiles(file, active_profile_from_env)
        name == IF HasProfileOption(argv) THEN argv[3] ELSE loaded.value.active_name
    IN IF global_cm # {} THEN Return([activate |-> FALSE])
       ELSE IF loaded.raised # "" THEN Raise(loaded.raised)
       ELSE IF name \notin names(loaded.value)
       THEN Raise("ValueError: Prefect profile " \o name \o " set by "
                    \o (IF HasProfileOption(argv) THEN "command line argument"
                        ELSE "environment variable") \o " not found")
       ELSE Return([activate |-> TRUE, profile |-> loaded.value.profiles_by_name[name]])

\* enter_root_settings_context()
EnterRoot ==
    LET res == enter_root_settings_context(GLOBAL_SETTINGS_CM, sys_argv, user_file,
                                           PREFECT_PROFILE)
        activate == res.raised = "" /\ res.value.activate
    IN /\ root_calls < MaxRootCalls
       /\ root_calls' = root_calls + 1
       /\ IF activate
          THEN LET cm == use_profile(stack, FROM_ENV_CACHE, os_environ,
                                     res.value.profile, TRUE)
               IN /\ use_profile_calls' = use_profile_calls + 1
                  /\ GLOBAL_SETTINGS_CM' = {cm}
                  /\ enters' = enters + 1
                  /\ stack' = Append(stack, cm)
                  /\ CacheAfterRead
                  /\ call' = [op |-> "enter_root_settings_context", raised |-> "",
                              profile |-> res.value.profile]
          ELSE /\ UNCHANGED <<use_profile_calls, GLOBAL_SETTINGS_CM, enters, stack,
                              FROM_ENV_CACHE>>
               /\ call' = [op |-> "enter_root_settings_context", raised |-> res.raised]
       /\ UNCHANGED <<os_environ, environ_keys, DEFAULTS_CACHE, settings, env_changes,
                      profile_vars, sys_argv, other_vars>>

\* A process started with some command line, environment and profiles file
InitRoot ==
    /\ os_environ \in {env \in Environs : env["PREFECT_ORION_DATABASE_TIMEOUT"] = NoVar}
    /\ environ_keys = declaration_order(os_environ)
    /\ InitNoOther
    /\ FROM_ENV_CACHE = from_env_cache_after(<<>>, os_environ)
    /\ DEFAULTS_CACHE = {}
    /\ settings = get_settings_from_env(<<>>, os_environ)
    /\ env_changes = 0
    /\ call = NoCall
    /\ profiles = ProfilesCollection(<<>>, None)
    /\ user_file \in UserFiles
    /\ PREFECT_PROFILE \in {NoVar, "default", "foo", MissingName}
    /\ sys_argv \in CommandLines
    /\ stack = <<>>
    /\ GLOBAL_SETTINGS_CM = {}
    /\ root_calls = 0
    /\ use_profile_calls = 0
    /\ enters = 0

NextRoot ==
    \/ EnterRoot
    \/ TemporarySettings(MaxRootDepth)
    \/ UseProfile(MaxRootDepth)
    \/ Exit

SpecRoot == InitRoot /\ [][NextRoot]_vars

-----------------------------------------------------------------------------
(* Writing the user's profiles file *)

\* _write_profiles_to(path, profiles): toml.dumps(profiles.to_dict()); a key
\* whose value is None is not written, so an active name of None reads back
\* as no active name
write_profiles_to(self) ==
    File(self.active_name,
         [n \in names(self) |-> drop_null_keys(self.profiles_by_name[n].settings)])

\* save_profiles(profiles): the file written
save_profiles(self) ==
    write_profiles_to(without_profile_source(self, DEFAULT_PROFILES_PATH))

\* save_new_active_profile(name): the file written, or the error raised
save_new_active_profile(file, active_profile_from_env, name) ==
    LET loaded == load_profiles(file, active_profile_from_env)
    IN IF loaded.raised # "" THEN loaded
       ELSE IF set_active(loaded.value, name).raised # "" THEN set_active(loaded.value, name)
       ELSE Return(save_profiles(set_active(loaded.value, name).value))

\* update_profile(name, **values) of the module: the file written, or the
\* error raised
module_update_profile(file, active_profile_from_env, name, vals) ==
    LET loaded == load_profiles(file, active_profile_from_env)
    IN IF loaded.raised # "" THEN loaded
       ELSE Return(save_profiles(update_profile(loaded.value, Profile(name, vals, None))))

\* The step of an operation that was to write the user's file
Written(op, res, args) ==
    /\ user_file' = IF res.raised = "" THEN res.value ELSE user_file
    /\ call' = [op |-> op, raised |-> res.raised, args |-> args]
    /\ UNCHANGED <<settings_vars, environ_keys, profiles, PREFECT_PROFILE, ctx_vars,
                   other_vars>>

\* save_profiles(profiles)
SaveProfiles ==
    Written("save_profiles", Return(save_profiles(profiles)), <<>>)

\* save_new_active_profile(name)
SaveNewActiveProfile ==
    \E name \in ProfileNames \cup {MissingName} :
        Written("save_new_active_profile",
                save_new_active_profile(user_file, PREFECT_PROFILE, name), <<name>>)

\* The **values the modelled callers pass update_profile
SavedSettings ==
    {<<>>, [k \in {"PREFECT_API_URL"} |-> "2"], [k \in {"PREFECT_API_URL"} |-> None]}

\* profiles.update_profile(Profile(name=name, settings=values, source=None))
\* on the collection the caller loaded
UpdateLoadedProfile ==
    \E name \in ProfileNames, vals \in SavedSettings :
        /\ profiles' = update_profile(profiles, Profile(name, vals, None))
        /\ call' = [op |-> "profiles.update_profile", raised |-> "", args |-> <<name, vals>>]
        /\ ProfilesFrame

\* update_profile(name, **values)
ModuleUpdateProfile ==
    \E name \in ProfileNames, vals \in SavedSettings :
        Written("update_profile",
                module_update_profile(user_file, PREFECT_PROFILE, name, vals),
                <<name, vals>>)

\* Files with a key that is no setting: an unknown name, and a nested table
InvalidFiles ==
    {File(None, [n \in {"foo"} |-> [k \in {"test"} |-> "2"]]),
     File("foo", [n \in ProfileNames |->
                    IF n = "foo"
                    THEN [k \in {"PREFECT_API_URL", "nested"} |->
                            IF k = "nested" THEN "{}" ELSE "2"]
                    ELSE [k \in {"PREFECT_API_URL"} |-> "2"]])}

\* A process with some profiles file and some PREFECT_PROFILE, whose caller
\* holds no loaded collection yet
InitFiles ==
    /\ os_environ = EmptyEnviron
    /\ environ_keys = declaration_order(os_environ)
    /\ InitNoOther
    /\ FROM_ENV_CACHE = from_env_cache_after(<<>>, os_environ)
    /\ DEFAULTS_CACHE = {}
    /\ settings = get_settings_from_env(<<>>, os_environ)
    /\ env_changes = 0
    /\ call = NoCall
    /\ profiles = ProfilesCollection(<<>>, None)
    /\ user_file \in UserFiles \cup InvalidFiles
    /\ PREFECT_PROFILE \in {NoVar, "foo", MissingName}
    /\ InitNoContext

NextFiles ==
    \/ LoadProfiles
    \/ UpdateLoadedProfile
    \/ SaveProfiles
    \/ SaveNewActiveProfile
    \/ ModuleUpdateProfile

SpecFiles == InitFiles /\ [][NextFiles]_vars

-----------------------------------------------------------------------------
(* Concurrently running call stacks (threads).  A thread runs             *)
(* get_settings_from_env and get_default_settings statement by statement; *)
(* another thread can run between any two statements.  os_environ is the   *)
(* process environment, which no thread changes; environ_binding tells    *)
(* whether the name os.environ is bound to it or to the {} that            *)
(* get_default_settings puts in its place.                                 *)

Threads == {"t1", "t2"}

\* The calls each thread makes
MaxCalls == 2

\* No Settings object (a local that is not assigned yet)
NoSettings == [values |-> <<>>, fields_set |-> {}]

\* A thread that has called nothing yet
IdleThread ==
    [pc |-> "idle", op |-> "none", cache_key |-> 0, old |-> "environ",
     settings |-> NoSettings, result |-> NoSettings, raised |-> "", calls |-> 0,
     stack |-> <<>>]

\* The mapping a read of os.environ gives
environ(binding, env) == IF binding = "environ" THEN env ELSE EmptyEnviron

\* _FROM_ENV_CACHE[cache_key] = obj
cache_store(cache, key, obj) ==
    [k \in (DOMAIN cache) \cup {key} |-> IF k = key THEN obj ELSE cache[k]]

\* `return settings`, the local the miss branch assigned
return_built(cache, key, built) ==
    IF built = NoSettings THEN Raise("UnboundLocalError") ELSE Return(built)

\* return _FROM_ENV_CACHE[cache_key]
return_cached(cache, key, built) ==
    IF key \in DOMAIN cache THEN Return(cache[key]) ELSE Raise("KeyError")

\* What a statement of thread t leaves alone besides the variables it names
ThreadFrame ==
    UNCHANGED <<os_environ, environ_keys, settings, env_changes, profile_vars, ctx_vars,
                hash_vars, heap_vars>>

\* Thread t moves to `pc` with the locals `locals` assigned
Goto(t, pc, locals) ==
    threads' = [threads EXCEPT ![t] =
                   [f \in DOMAIN threads[t] |->
                       IF f = "pc" THEN pc
                       ELSE IF f \in DOMAIN locals THEN locals[f]
                       ELSE threads[t][f]]]

\* Thread t calls get_settings_from_env()
CallGetSettingsFromEnv(t) ==
    /\ threads[t].pc = "idle"
    /\ threads[t].calls < MaxCalls
    /\ Goto(t, "cache_key", [op |-> "get_settings_from_env", raised |-> "",
                             settings |-> NoSettings, result |-> NoSettings,
                             calls |-> threads[t].calls + 1])
    /\ call' = [op |-> "get_settings_from_env", thread |-> t, returned |-> FALSE]
    /\ UNCHANGED <<FROM_ENV_CACHE, DEFAULTS_CACHE, environ_binding>>
    /\ ThreadFrame

\* cache_key = hash(tuple(... os.environ.items()))
ComputeCacheKey(t) ==
    /\ threads[t].pc = "cache_key"
    /\ Goto(t, "lookup", [cache_key |-> cache_key(environ(environ_binding, os_environ))])
    /\ call' = [op |-> threads[t].op, thread |-> t, returned |-> FALSE]
    /\ UNCHANGED <<FROM_ENV_CACHE, DEFAULTS_CACHE, environ_binding>>
    /\ ThreadFrame

\* if cache_key not in _FROM_ENV_CACHE:
Lookup(t) ==
    /\ threads[t].pc = "lookup"
    /\ Goto(t, IF threads[t].cache_key \notin DOMAIN FROM_ENV_CACHE
               THEN "construct" ELSE "return", <<>>)
    /\ call' = [op |-> threads[t].op, thread |-> t, returned |-> FALSE]
    /\ UNCHANGED <<FROM_ENV_CACHE, DEFAULTS_CACHE, environ_binding>>
    /\ ThreadFrame

\* Settings(): the environment is read when the object is built
BuildSettings(t) ==
    /\ threads[t].pc = "construct"
    /\ Goto(t, "store", [settings |-> Settings(<<>>, environ(environ_binding, os_environ))])
    /\ call' = [op |-> threads[t].op, thread |-> t, returned |-> FALSE]
    /\ UNCHANGED <<FROM_ENV_CACHE, DEFAULTS_CACHE, environ_binding>>
    /\ ThreadFrame

\* _FROM_ENV_CACHE[cache_key] = the object built
Store(t) ==
    /\ threads[t].pc = "store"
    /\ FROM_ENV_CACHE' = cache_store(FROM_ENV_CACHE, threads[t].cache_key,
                                     threads[t].settings)
    /\ Goto(t, "return", <<>>)
    /\ call' = [op |-> threads[t].op, thread |-> t, returned |-> FALSE]
    /\ UNCHANGED <<DEFAULTS_CACHE, environ_binding>>
    /\ ThreadFrame

\* return _FROM_ENV_CACHE[cache_key]: to the caller of get_settings_from_env,
\* or to get_default_settings, which goes on to its finally clause
ReturnCached(t) ==
    LET res == return_cached(FROM_ENV_CACHE, threads[t].cache_key, threads[t].settings)
        inner == threads[t].op = "get_default_settings"
    IN /\ threads[t].pc = "return"
       /\ Goto(t, IF inner THEN "restore" ELSE "idle",
               IF res.raised = "" THEN [result |-> res.value]
               ELSE [raised |-> res.raised])
       /\ call' = [op |-> threads[t].op, thread |-> t, returned |-> ~inner]
       /\ UNCHANGED <<FROM_ENV_CACHE, DEFAULTS_CACHE, environ_binding>>
       /\ ThreadFrame

\* Thread t calls get_default_settings()
CallGetDefaultSettings(t) ==
    /\ threads[t].pc = "idle"
    /\ threads[t].calls < MaxCalls
    /\ Goto(t, "test_defaults", [op |-> "get_default_settings", raised |-> "",
                                 settings |-> NoSettings, result |-> NoSettings,
                                 calls |-> threads[t].calls + 1])
    /\ call' = [op |-> "get_default_settings", thread |-> t, returned |-> FALSE]
    /\ UNCHANGED <<FROM_ENV_CACHE, DEFAULTS_CACHE, environ_binding>>
    /\ ThreadFrame

\* if not _DEFAULTS_CACHE: ... ; return _DEFAULTS_CACHE
TestDefaults(t) ==
    /\ threads[t].pc = "test_defaults"
    /\ IF DEFAULTS_CACHE = {}
       THEN /\ Goto(t, "save_old", <<>>)
            /\ call' = [op |-> threads[t].op, thread |-> t, returned |-> FALSE]
       ELSE /\ Goto(t, "idle", [result |-> CHOOSE d \in DEFAULTS_CACHE : TRUE])
            /\ call' = [op |-> threads[t].op, thread |-> t, returned |-> TRUE]
    /\ UNCHANGED <<FROM_ENV_CACHE, DEFAULTS_CACHE, environ_binding>>
    /\ ThreadFrame

\* old = os.environ
SaveOld(t) ==
    /\ threads[t].pc = "save_old"
    /\ Goto(t, "swap", [old |-> environ_binding])
    /\ call' = [op |-> threads[t].op, thread |-> t, returned |-> FALSE]
    /\ UNCHANGED <<FROM_ENV_CACHE, DEFAULTS_CACHE, environ_binding>>
    /\ ThreadFrame

\* os.environ = {}; settings = get_settings_from_env() is called next
Swap(t) ==
    /\ threads[t].pc = "swap"
    /\ environ_binding' = "{}"
    /\ Goto(t, "cache_key", <<>>)
    /\ call' = [op |-> threads[t].op, thread |-> t, returned |-> FALSE]
    /\ UNCHANGED <<FROM_ENV_CACHE, DEFAULTS_CACHE>>
    /\ ThreadFrame

\* finally: os.environ = old
Restore(t) ==
    /\ threads[t].pc = "restore"
    /\ environ_binding' = threads[t].old
    /\ Goto(t, "set_defaults_cache", <<>>)
    /\ call' = [op |-> threads[t].op, thread |-> t, returned |-> FALSE]
    /\ UNCHANGED <<FROM_ENV_CACHE, DEFAULTS_CACHE>>
    /\ ThreadFrame

\* _DEFAULTS_CACHE = settings; return _DEFAULTS_CACHE
SetDefaultsCache(t) ==
    /\ threads[t].pc = "set_defaults_cache"
    /\ DEFAULTS_CACHE' = {threads[t].result}
    /\ Goto(t, "idle", <<>>)
    /\ call' = [op |-> threads[t].op, thread |-> t, returned |-> TRUE]
    /\ UNCHANGED <<FROM_ENV_CACHE, environ_binding>>
    /\ ThreadFrame

\* The process after import: empty caches, every thread about to make its
\* first call
InitThreads ==
    /\ os_environ \in Environs
    /\ environ_keys = declaration_order(os_environ)
    /\ hash_collision = {}
    /\ resolved = <<>>
    /\ threads = [t \in Threads |-> IdleThread]
    /\ environ_binding = "environ"
    /\ heap = <<>>
    /\ collections = <<>>
    /\ FROM_ENV_CACHE = <<>>
    /\ DEFAULTS_CACHE = {}
    /\ settings = NoSettings
    /\ env_changes = 0
    /\ call = NoCall
    /\ InitNoProfiles
    /\ InitNoContext

\* The statements of get_settings_from_env
GetSettingsFromEnvStep(t) ==
    \/ CallGetSettingsFromEnv(t)
    \/ ComputeCacheKey(t)
    \/ Lookup(t)
    \/ BuildSettings(t)
    \/ Store(t)
    \/ ReturnCached(t)

\* The statements of get_default_settings
GetDefaultSettingsStep(t) ==
    \/ CallGetDefaultSettings(t)
    \/ TestDefaults(t)
    \/ SaveOld(t)
    \/ Swap(t)
    \/ Restore(t)
    \/ SetDefaultsCache(t)

(* Specification SpecFirstAccess: threads calling get_settings_from_env   *)
(* under one environment, the cache being empty at first.                  *)
NextFirstAccess == \E t \in Threads : GetSettingsFromEnvStep(t)

SpecFirstAccess == InitThreads /\ [][NextFirstAccess]_vars

(* Specification SpecDefaults: threads calling get_settings_from_env and  *)
(* get_default_settings.                                                   *)
NextDefaults == \E t \in Threads : GetSettingsFromEnvStep(t) \/ GetDefaultSettingsStep(t)

SpecDefaults == InitThreads /\ [][NextDefaults]_vars

-----------------------------------------------------------------------------
(* Specification SpecStacks: threads entering and leaving scopes.  The     *)
(* entered contexts are held in a context variable (contextvars), which    *)
(* every thread has a value of its own for: threads[t].stack.              *)

MaxThreadDepth == 2

\* A context variable that all threads share one value of
context_shared(thrs, t) == thrs["t1"].stack

\* ProfileContext.__var__ as thread t sees it: the contexts t has entered
context_of(thrs, t) == thrs[t].stack

\* The profiles the threads activate
ThreadProfiles ==
    {Profile("foo", [k \in {"PREFECT_API_URL"} |-> "2"], USER_PROFILES_PATH)}

\* FROM_ENV_CACHE after thread t's get_current_settings()
ThreadCacheAfterRead(t) ==
    FROM_ENV_CACHE' = IF context_of(threads, t) = <<>>
                      THEN from_env_cache_after(FROM_ENV_CACHE, os_environ)
                      ELSE FROM_ENV_CACHE

\* Thread t enters a with temporary_settings(...) block
ThreadTemporarySettings(t) ==
    \E args \in TemporaryArgs :
        /\ Len(threads[t].stack) < MaxThreadDepth
        /\ Goto(t, "idle",
                [stack |-> Append(threads[t].stack,
                                  temporary_settings(context_of(threads, t), FROM_ENV_CACHE,
                                                     os_environ, args[1], args[2], args[3]))])
        /\ ThreadCacheAfterRead(t)
        /\ call' = [op |-> "temporary_settings", thread |-> t]
        /\ UNCHANGED <<DEFAULTS_CACHE, environ_binding>>
        /\ ThreadFrame

\* Thread t enters a with use_profile(profile) block
ThreadUseProfile(t) ==
    \E profile \in ThreadProfiles :
        /\ Len(threads[t].stack) < MaxThreadDepth
        /\ Goto(t, "idle",
                [stack |-> Append(threads[t].stack,
                                  use_profile(context_of(threads, t), FROM_ENV_CACHE,
                                              os_environ, profile, FALSE))])
        /\ ThreadCacheAfterRead(t)
        /\ call' = [op |-> "use_profile", thread |-> t]
        /\ UNCHANGED <<DEFAULTS_CACHE, environ_binding>>
        /\ ThreadFrame

\* Thread t leaves its innermost with-block
ThreadExit(t) ==
    /\ threads[t].stack # <<>>
    /\ Goto(t, "idle", [stack |-> SubSeq(threads[t].stack, 1, Len(threads[t].stack) - 1)])
    /\ call' = [op |-> "exit", thread |-> t]
    /\ UNCHANGED <<FROM_ENV_CACHE, DEFAULTS_CACHE, environ_binding>>
    /\ ThreadFrame

InitStacks ==
    /\ os_environ \in Environs
    /\ environ_keys = declaration_order(os_environ)
    /\ hash_collision = {}
    /\ resolved = <<>>
    /\ threads = [t \in Threads |-> IdleThread]
    /\ environ_binding = "environ"
    /\ heap = <<>>
    /\ collections = <<>>
    /\ FROM_ENV_CACHE = from_env_cache_after(<<>>, os_environ)
    /\ DEFAULTS_CACHE = {}
    /\ settings = get_settings_from_env(<<>>, os_environ)
    /\ env_changes = 0
    /\ call = NoCall
    /\ InitNoProfiles
    /\ InitNoContext

NextStacks ==
    \E t \in Threads :
        \/ ThreadTemporarySettings(t)
        \/ ThreadUseProfile(t)
        \/ ThreadExit(t)

SpecStacks == InitStacks /\ [][NextStacks]_vars

-----------------------------------------------------------------------------
(* Specification SpecAlias: two ProfilesCollection objects, one returned   *)
(* by with_new_profiles or without_profile_source of the other.  A         *)
(* collection holds references to Profile objects: heap[a] is the Profile  *)
(* at address a, and profiles_by_name maps a name to an address.           *)

\* The Profile objects built by mutations made through the returned collection
MaxMutations == 1

\* The collection as a reader sees it: every address replaced by the
\* Profile object it refers to
deref(h, c) ==
    [profiles_by_name |-> [n \in names(c) |-> h[c.profiles_by_name[n]]],
     active_name |-> c.active_name]

\* ProfilesCollection(profiles, active) of Profile objects newly built:
\* the heap with the objects added, and the collection referring to them
new_collection(h, profile_seq, active) ==
    [heap |-> h \o profile_seq,
     collection |->
        [profiles_by_name |->
            [n \in {profile_seq[i].name : i \in DOMAIN profile_seq} |->
                Len(h) + CHOOSE i \in DOMAIN profile_seq : profile_seq[i].name = n],
         active_name |-> active]]

\* self.with_new_profiles(other): a new collection of the same Profile objects
ref_with_new_profiles(h, self, other) ==
    [profiles_by_name |->
        [n \in names(self) \cup names(other) |->
            IF n \in names(other) THEN other.profiles_by_name[n]
            ELSE self.profiles_by_name[n]],
     active_name |-> with_new_profiles(deref(h, self), deref(h, other)).active_name]

\* self.without_profile_source(path): a new collection of the same Profile objects
ref_without_profile_source(h, self, path) ==
    [profiles_by_name |->
        [n \in {m \in names(self) : h[self.profiles_by_name[m]].source # path} |->
            self.profiles_by_name[n]],
     active_name |-> self.active_name]

\* The collections the original is built as, and the other collection
\* with_new_profiles is given
OriginalProfiles ==
    <<Profile("default", <<>>, DEFAULT_PROFILES_PATH),
      Profile("foo", [k \in {"PREFECT_API_URL"} |-> "2"], USER_PROFILES_PATH)>>

OtherProfiles ==
    <<Profile("foo", [k \in {"PREFECT_ORION_DATABASE_TIMEOUT"} |-> "2"], USER_PROFILES_PATH)>>

\* original = ProfilesCollection([...], active=...); no collection derived yet
InitAlias ==
    /\ os_environ = EmptyEnviron
    /\ environ_keys = declaration_order(os_environ)
    /\ hash_collision = {}
    /\ resolved = <<>>
    /\ threads = <<>>
    /\ environ_binding = "environ"
    /\ \E active \in {None, "default", "foo"} :
          LET built == new_collection(<<>>, OriginalProfiles, active)
          IN /\ heap = built.heap
             /\ collections = [c \in {"original"} |-> built.collection]
    /\ FROM_ENV_CACHE = from_env_cache_after(<<>>, os_environ)
    /\ DEFAULTS_CACHE = {}
    /\ settings = get_settings_from_env(<<>>, os_environ)
    /\ env_changes = 0
    /\ call = NoCall
    /\ InitNoProfiles
    /\ InitNoContext

\* What an operation on the collections leaves alone
AliasFrame ==
    UNCHANGED <<settings_vars, environ_keys, profile_vars, ctx_vars, hash_vars, thread_vars>>

\* collections with `derived` bound to collection c
WithDerived(c) ==
    [k \in {"original", "derived"} |-> IF k = "derived" THEN c ELSE collections[k]]

\* derived = original.with_new_profiles(ProfilesCollection([...], active=...))
DeriveWithNewProfiles ==
    \E active \in {None, "foo"} :
        LET built == new_collection(heap, OtherProfiles, active)
        IN /\ "derived" \notin DOMAIN collections
           /\ heap' = built.heap
           /\ collections' = WithDerived(ref_with_new_profiles(built.heap,
                                                               collections["original"],
                                                               built.collection))
           /\ call' = [op |-> "with_new_profiles", raised |-> ""]
           /\ AliasFrame

\* derived = original.without_profile_source(path)
DeriveWithoutProfileSource ==
    \E path \in {DEFAULT_PROFILES_PATH, USER_PROFILES_PATH} :
        /\ "derived" \notin DOMAIN collections
        /\ heap' = heap
        /\ collections' = WithDerived(ref_without_profile_source(heap, collections["original"],
                                                                 path))
        /\ call' = [op |-> "without_profile_source", raised |-> ""]
        /\ AliasFrame

\* A mutation can be made through the derived collection
CanMutate ==
    /\ "derived" \in DOMAIN collections
    /\ Len(heap) < Len(OriginalProfiles) + Len(OtherProfiles) + MaxMutations

\* derived.update_active_profile(settings): the source and the settings of
\* the active Profile object are assigned in place
DerivedUpdateActiveProfile ==
    \E new \in SavedSettings :
        LET c == collections["derived"]
            res == update_active_profile(deref(heap, c), new)
        IN /\ CanMutate
           /\ heap' = IF res.raised # "" THEN heap
                      ELSE [heap EXCEPT ![c.profiles_by_name[c.active_name]] =
                               res.value.profiles_by_name[c.active_name]]
           /\ collections' = collections
           /\ call' = [op |-> "update_active_profile", raised |-> res.raised]
           /\ AliasFrame

\* derived.update_profile(profile): the name is bound to a Profile object
\* newly built (on an existing name) or to the one given
DerivedUpdateProfile ==
    \E profile \in {Profile(n, m, None) : n \in ProfileNames, m \in SavedSettings} :
        LET c == collections["derived"]
            new_profile == update_profile(deref(heap, c), profile).profiles_by_name[profile.name]
        IN /\ CanMutate
           /\ heap' = Append(heap, new_profile)
           /\ collections' =
                 WithDerived([c EXCEPT !.profiles_by_name =
                                 [n \in names(c) \cup {profile.name} |->
                                     IF n = profile.name THEN Len(heap) + 1
                                     ELSE c.profiles_by_name[n]]])
           /\ call' = [op |-> "update_profile", raised |-> ""]
           /\ AliasFrame

\* derived.remove_profile(name)
DerivedRemoveProfile ==
    \E name \in ProfileNames \cup {MissingName} :
        LET c == collections["derived"]
            res == remove_profile(c, name)
        IN /\ CanMutate
           /\ heap' = heap
           /\ collections' = IF res.raised # "" THEN collections ELSE WithDerived(res.value)
           /\ call' = [op |-> "remove_profile", raised |-> res.raised]
           /\ AliasFrame

\* derived.set_active(name)
DerivedSetActive ==
    \E name \in ProfileNames \cup {MissingName, None} :
        LET c == collections["derived"]
            res == set_active(c, name)
        IN /\ CanMutate
           /\ heap' = heap
           /\ collections' = IF res.raised # "" THEN collections ELSE WithDerived(res.value)
           /\ call' = [op |-> "set_active", raised |-> res.raised]
           /\ AliasFrame

NextAlias ==
    \/ DeriveWithNewProfiles
    \/ DeriveWithoutProfileSource
    \/ DerivedUpdateActiveProfile
    \/ DerivedUpdateProfile
    \/ DerivedRemoveProfile
    \/ DerivedSetActive

SpecAlias == InitAlias /\ [][NextAlias]_vars

-----------------------------------------------------------------------------
(* Specification SpecLogging: Settings snapshots seen through the debug    *)
(* mode and logging settings: PREFECT_LOGGING_LEVEL, whose value_callback  *)
(* reads PREFECT_DEBUG_MODE, and the two log sizes the root validator      *)
(* compares.  In this specification os_environ is os.environ restricted    *)
(* to these four variables.                                                *)

MaxLoggingEnvChanges == 2
MaxLoggingDepth == 1

LOGGING_VARIABLES ==
    {"PREFECT_DEBUG_MODE", "PREFECT_LOGGING_LEVEL", "PREFECT_LOGGING_ORION_BATCH_SIZE",
     "PREFECT_LOGGING_ORION_MAX_LOG_SIZE"}

\* The default= of the four Setting definitions
logging_default(n) ==
    IF n = "PREFECT_DEBUG_MODE" THEN FALSE
    ELSE IF n = "PREFECT_LOGGING_LEVEL" THEN "INFO"
    ELSE IF n = "PREFECT_LOGGING_ORION_BATCH_SIZE" THEN 4000000
    ELSE 1000000

\* pydantic's parse of an environment string into the field's type: bool,
\* str, int, int
parse_field(n, string) ==
    IF n = "PREFECT_DEBUG_MODE" THEN string \in {"True", "true", "1"}
    ELSE IF n = "PREFECT_LOGGING_LEVEL" THEN string
    ELSE IF string = "500000" THEN 500000
    ELSE 5000000

\* The strings the environment holds for a variable
LoggingEnvStrings(n) ==
    IF n = "PREFECT_DEBUG_MODE" THEN {"True"}
    ELSE IF n = "PREFECT_LOGGING_LEVEL" THEN {"ERROR"}
    ELSE {"500000"}

\* The values of the fields before the root validator runs: keyword
\* arguments, then the environment, then the declared defaults
field_values(kwargs, env) ==
    [n \in LOGGING_VARIABLES |->
        IF n \in DOMAIN kwargs THEN kwargs[n]
        ELSE IF env[n] # NoVar THEN parse_field(n, env[n])
        ELSE logging_default(n)]

\* max_log_size_smaller_than_batch_size(values)
max_log_size_smaller_than_batch_size(vals) ==
    IF vals["PREFECT_LOGGING_ORION_BATCH_SIZE"] < vals["PREFECT_LOGGING_ORION_MAX_LOG_SIZE"]
    THEN Raise("ValueError: PREFECT_LOGGING_ORION_MAX_LOG_SIZE cannot be larger than PREFECT_LOGGING_ORION_BATCH_SIZE")
    ELSE Return(vals)

\* A root validator that checks nothing
post_root_validators_none(vals) == Return(vals)

\* Settings.post_root_validators
post_root_validators(vals) == max_log_size_smaller_than_batch_size(vals)

\* Settings(**kwargs) over the four fields: the object, or the validation
\* error of the root validator
LoggingSettings(kwargs, env) ==
    LET validated == post_root_validators(field_values(kwargs, env))
    IN IF validated.raised # "" THEN Raise(validated.raised)
       ELSE Return([values |-> validated.value,
                    fields_set |-> (DOMAIN kwargs) \cup {n \in LOGGING_VARIABLES : env[n] # NoVar}])

\* The keyword arguments with set_defaults laid over the source's set values
copy_kwargs_defaults_over(self, updates, set_defaults, restore_defaults) ==
    DictMerge(DictMerge(dict_exclude_unset(self, restore_defaults), set_defaults), updates)

\* The keyword arguments copy_with_update builds
copy_kwargs(self, updates, set_defaults, restore_defaults) ==
    DictMerge(DictMerge(set_defaults, dict_exclude_unset(self, restore_defaults)), updates)

\* Settings.copy_with_update over the four fields
logging_copy_with_update(self, updates, set_defaults, restore_defaults, env) ==
    LoggingSettings(copy_kwargs(self, updates, set_defaults, restore_defaults), env)

\* debug_mode_log_level without the override
debug_mode_log_level_off(self, value) == value

\* debug_mode_log_level: the value_callback of PREFECT_LOGGING_LEVEL
\* (PREFECT_DEBUG_MODE has no value_callback, so value_from gives its raw value)
debug_mode_log_level(self, value) ==
    IF self.values["PREFECT_DEBUG_MODE"] THEN "DEBUG" ELSE value

\* Settings.value_of(setting)
value_of(self, setting) ==
    IF setting = "PREFECT_LOGGING_LEVEL"
    THEN debug_mode_log_level(self, self.values[setting])
    ELSE self.values[setting]

LoggingEnvirons ==
    {env \in [LOGGING_VARIABLES -> {"True", "ERROR", "500000", "5000000", NoVar}] :
        \A n \in LOGGING_VARIABLES : env[n] \in LoggingEnvStrings(n) \cup {NoVar}}

LEVEL_VARIABLES == {"PREFECT_DEBUG_MODE", "PREFECT_LOGGING_LEVEL"}
SIZE_VARIABLES == {"PREFECT_LOGGING_ORION_BATCH_SIZE", "PREFECT_LOGGING_ORION_MAX_LOG_SIZE"}

\* The (updates, set_defaults, restore_defaults) of the modelled calls that
\* name the debug mode and the logging level
LevelCopyArgs ==
    {<<<<>>, [k \in {"PREFECT_LOGGING_LEVEL"} |-> "WARNING"], {}>>,
     <<<<>>, [k \in {"PREFECT_LOGGING_LEVEL"} |-> "NOTSET"], {}>>,
     <<<<>>, [k \in {"PREFECT_LOGGING_LEVEL"} |-> "NOTSET"], {"PREFECT_LOGGING_LEVEL"}>>,
     <<[k \in {"PREFECT_LOGGING_LEVEL"} |-> "CRITICAL"],
       [k \in {"PREFECT_LOGGING_LEVEL"} |-> "NOTSET"], {}>>,
     <<[k \in {"PREFECT_DEBUG_MODE"} |-> TRUE], <<>>, {}>>,
     <<<<>>, <<>>, {"PREFECT_DEBUG_MODE"}>>}

\* The (updates, set_defaults, restore_defaults) of the modelled calls that
\* name the two sizes
SizeCopyArgs ==
    {<<[k \in {"PREFECT_LOGGING_ORION_BATCH_SIZE"} |-> 500000], <<>>, {}>>,
     <<[k \in {"PREFECT_LOGGING_ORION_MAX_LOG_SIZE"} |-> 5000000], <<>>, {}>>,
     <<<<>>, [k \in {"PREFECT_LOGGING_ORION_MAX_LOG_SIZE"} |-> 500000], {}>>,
     <<<<>>, <<>>, SIZE_VARIABLES>>}

\* A process started under an environment its settings are valid for, after
\* a first `settings = get_settings_from_env()`
InitLogging ==
    /\ os_environ \in {env \in LoggingEnvirons :
                          /\ LoggingSettings(<<>>, env).raised = ""
                          /\ Cardinality({v \in LOGGING_VARIABLES : env[v] # NoVar}) <= 1}
    /\ environ_keys = declaration_order(os_environ)
    /\ InitNoOther
    /\ settings = LoggingSettings(<<>>, os_environ).value
    /\ FROM_ENV_CACHE = [k \in {cache_key(os_environ)} |-> settings]
    /\ DEFAULTS_CACHE = {}
    /\ env_changes = 0
    /\ call = NoCall
    /\ InitNoProfiles
    /\ InitNoContext

LoggingFrame ==
    UNCHANGED <<DEFAULTS_CACHE, profile_vars, sys_argv, GLOBAL_SETTINGS_CM, root_calls,
                use_profile_calls, enters, other_vars>>

\* os.environ[n] = s or del os.environ[n]
LoggingSetEnv(variables) ==
    \E n \in variables : \E string \in LoggingEnvStrings(n) \cup {NoVar} :
        /\ env_changes < MaxLoggingEnvChanges
        /\ os_environ[n] # string
        /\ os_environ' = [os_environ EXCEPT ![n] = string]
        /\ environ_keys' = IF string = NoVar THEN SelectSeq(environ_keys, LAMBDA k : k # n)
                           ELSE IF os_environ[n] = NoVar THEN Append(environ_keys, n)
                           ELSE environ_keys
        /\ env_changes' = env_changes + 1
        /\ call' = NoCall
        /\ UNCHANGED <<FROM_ENV_CACHE, settings, stack>>
        /\ LoggingFrame

\* get_settings_from_env() over the four fields: the cached object, the
\* object built and cached, or the error of Settings()
logging_get_settings_from_env(cache, env) ==
    IF cache_key(env) \in DOMAIN cache THEN Return(cache[cache_key(env)])
    ELSE LoggingSettings(<<>>, env)

\* settings = get_settings_from_env()
LoggingGetSettingsFromEnv ==
    LET res == logging_get_settings_from_env(FROM_ENV_CACHE, os_environ)
    IN /\ settings' = IF res.raised = "" THEN res.value ELSE settings
       /\ FROM_ENV_CACHE' = IF res.raised = ""
                            THEN cache_store(FROM_ENV_CACHE, cache_key(os_environ), res.value)
                            ELSE FROM_ENV_CACHE
       /\ call' = [op |-> "get_settings_from_env", raised |-> res.raised,
                   vals |-> field_values(<<>>, os_environ)]
       /\ UNCHANGED <<os_environ, environ_keys, env_changes, stack>>
       /\ LoggingFrame

\* settings = settings.copy_with_update(updates, set_defaults, restore_defaults)
LoggingCopyWithUpdate(CopyArgs) ==
    \E args \in CopyArgs :
        LET res == logging_copy_with_update(settings, args[1], args[2], args[3], os_environ)
        IN /\ settings' = IF res.raised = "" THEN res.value ELSE settings
           /\ call' = [op |-> "copy_with_update", raised |-> res.raised, base |-> settings,
                       updates |-> args[1], set_defaults |-> args[2],
                       restore_defaults |-> args[3],
                       vals |-> field_values(copy_kwargs(settings, args[1], args[2], args[3]),
                                             os_environ)]
           /\ UNCHANGED <<os_environ, environ_keys, env_changes, FROM_ENV_CACHE, stack>>
           /\ LoggingFrame

\* with temporary_settings(updates, set_defaults, restore_defaults): the
\* context is entered unless get_current_settings() or copy_with_update raises
LoggingTemporarySettings ==
    \E args \in SizeCopyArgs :
        LET current == IF stack # <<>> THEN Return(stack[Len(stack)].settings)
                       ELSE logging_get_settings_from_env(FROM_ENV_CACHE, os_environ)
            res == IF current.raised # "" THEN current
                   ELSE logging_copy_with_update(current.value, args[1], args[2], args[3],
                                                 os_environ)
        IN /\ Len(stack) < MaxLoggingDepth
           /\ stack' = IF res.raised = ""
                       THEN Append(stack, ProfileContext("temporary", res.value,
                                                         current.value, FALSE))
                       ELSE stack
           /\ FROM_ENV_CACHE' = IF stack = <<>> /\ current.raised = ""
                                THEN cache_store(FROM_ENV_CACHE, cache_key(os_environ),
                                                 current.value)
                                ELSE FROM_ENV_CACHE
           /\ call' = [op |-> "temporary_settings", raised |-> res.raised,
                       vals |-> IF current.raised # "" THEN field_values(<<>>, os_environ)
                                ELSE field_values(copy_kwargs(current.value, args[1],
                                                              args[2], args[3]),
                                                  os_environ)]
           /\ UNCHANGED <<os_environ, environ_keys, env_changes, settings>>
           /\ LoggingFrame

\* Leaving the with-block
LoggingExit ==
    /\ stack # <<>>
    /\ stack' = SubSeq(stack, 1, Len(stack) - 1)
    /\ call' = [op |-> "exit", raised |-> ""]
    /\ UNCHANGED <<os_environ, environ_keys, env_changes, settings, FROM_ENV_CACHE>>
    /\ LoggingFrame

\* settings.value_of(setting) / setting.value_from(settings): a read
ValueOf ==
    \E setting \in LOGGING_VARIABLES :
        /\ call' = [op |-> "value_of", raised |-> "", setting |-> setting,
                    value |-> value_of(settings, setting)]
        /\ UNCHANGED <<os_environ, environ_keys, env_changes, settings, FROM_ENV_CACHE,
                       stack>>
        /\ LoggingFrame

\* The debug mode and the logging level set, copied and read
NextLogging ==
    \/ LoggingSetEnv(LEVEL_VARIABLES)
    \/ LoggingGetSettingsFromEnv
    \/ LoggingCopyWithUpdate(LevelCopyArgs)
    \/ ValueOf

SpecLogging == InitLogging /\ [][NextLogging]_vars

\* The two sizes set and copied, outside and inside temporary_settings scopes
NextLogSizes ==
    \/ LoggingSetEnv(SIZE_VARIABLES)
    \/ LoggingGetSettingsFromEnv
    \/ LoggingCopyWithUpdate(SizeCopyArgs)
    \/ LoggingTemporarySettings
    \/ LoggingExit

SpecLogSizes == InitLogging /\ [][NextLogSizes]_vars

-----------------------------------------------------------------------------
(* Claims about Settings snapshots, checked under Spec *)

IsCopy == call.op = "copy_with_update"

\* C1: copy_with_update resolves every setting with precedence updates >
\* explicitly set in the base > set_defaults > declared default.  (A setting
\* named in restore_defaults is read as one the base does not mention.)
C1_Precedence ==
    IsCopy =>
        \A n \in SETTING_VARIABLES :
            settings.values[n] =
                IF n \in DOMAIN call.updates THEN call.updates[n]
                ELSE IF n \in call.base.fields_set \ call.restore_defaults
                     THEN call.base.values[n]
                ELSE IF n \in DOMAIN call.set_defaults THEN call.set_defaults[n]
                ELSE default(n)

\* C4: copy_with_update preserves the explicitly-set record: with empty
\* arguments the set names are those of the source, with updates alone the
\* only names added are the updates' keys, and a setting the call does not
\* touch stays set or unset as it was.
C4_SetRecordPreserved ==
    IsCopy =>
        /\ (call.updates = <<>> /\ call.set_defaults = <<>> /\ call.restore_defaults = {})
                => settings.fields_set = call.base.fields_set
        /\ (call.set_defaults = <<>> /\ call.restore_defaults = {})
                => (settings.fields_set \ call.base.fields_set) \subseteq DOMAIN call.updates
        /\ \A n \in SETTING_VARIABLES :
                n \notin (DOMAIN call.updates) \cup (DOMAIN call.set_defaults)
                            \cup call.restore_defaults
                    => (n \in settings.fields_set <=> n \in call.base.fields_set)

\* C5: after copy_with_update(restore_defaults={X}) on a snapshot where X was
\* explicitly set, X has its declared default, X is not in the set names, and
\* a later copy_with_update(set_defaults={X: v}) makes X resolve to v.
C5_RestoreDefaults ==
    IsCopy =>
        \A x \in call.restore_defaults :
            (/\ x \in call.base.fields_set
             /\ x \notin (DOMAIN call.updates) \cup (DOMAIN call.set_defaults))
            => /\ settings.values[x] = default(x)
               /\ x \notin settings.fields_set
               /\ \A v \in SetDefaultVals :
                    copy_with_update(settings, <<>>, [k \in {x} |-> v], {},
                                     os_environ).values[x] = v

\* C6: resolving a snapshot from the environment that
\* to_environment_variables(exclude_unset=b) produces gives back the raw values
\* of the snapshot, for b true and false.
C6_RoundTrip ==
    \A b \in BOOLEAN :
        Settings(<<>>, to_environment_variables(settings, b)).values = settings.values

-----------------------------------------------------------------------------
(* Claims about ProfilesCollection, checked under SpecProfiles *)

\* The override a settings map holds for a key; None when it holds none
Override(m, k) == IF k \in DOMAIN m THEN m[k] ELSE None

\* C9: the active name of the collection is None or a key of profiles_by_name
\* after every operation (an operation that would break this raises instead).
C9_ActiveNameIsKey ==
    profiles.active_name = None \/ profiles.active_name \in names(profiles)

\* The merge of `profile` into collection `old` gave collection `new`
MergedInto(old, profile, new) ==
    /\ names(new) = names(old) \cup {profile.name}
    /\ new.active_name = old.active_name
    /\ \A n \in names(old) \ {profile.name} :
          new.profiles_by_name[n] = old.profiles_by_name[n]
    /\ IF profile.name \in names(old)
       THEN LET before == old.profiles_by_name[profile.name].settings
                after == new.profiles_by_name[profile.name].settings
            IN \A k \in SETTING_VARIABLES :
                 /\ k \in DOMAIN profile.settings /\ profile.settings[k] # None
                      => k \in DOMAIN after /\ after[k] = profile.settings[k]
                 /\ k \in DOMAIN profile.settings /\ profile.settings[k] = None
                      => k \notin DOMAIN after
                 /\ k \notin DOMAIN profile.settings
                      => Override(after, k) = Override(before, k)
       ELSE new.profiles_by_name[profile.name] = profile

\* C10: update_profile on an existing profile merges key by key: a key given
\* a non-None value takes it, a key given None is deleted, and a key the
\* update does not mention keeps its override (None and absent both meaning
\* "no override"); on a name the collection does not have, the profile
\* given is added. Other profiles and the active name are untouched.
C10_UpdateProfileMerges ==
    [][call'.op = "update_profile" => MergedInto(profiles, call'.profile, profiles')]_vars

\* An update of an existing profile that deleted one key and kept another
C10_Witness ==
    /\ call.op = "update_profile"
    /\ call.existing
    /\ \E k \in DOMAIN call.profile.settings : call.profile.settings[k] = None
    /\ \E k \in SETTING_VARIABLES \ DOMAIN call.profile.settings :
          Override(profiles.profiles_by_name[call.profile.name].settings, k) # None

\* C14: set_active(name) with a name that is not None and not a profile of
\* the collection raises and leaves the active name and the profiles as they
\* were; set_active(None) and set_active of an existing name return and make
\* the active name exactly the argument, the profiles being untouched.
C14_SetActiveValidates ==
    [][call'.op = "set_active" =>
         IF call'.name # None /\ call'.name \notin names(profiles)
         THEN call'.raised # "" /\ profiles' = profiles
         ELSE /\ call'.raised = ""
              /\ profiles'.active_name = call'.name
              /\ profiles'.profiles_by_name = profiles.profiles_by_name]_vars

\* set_active of an unknown name raised on a collection that has an active
\* profile, which is still the active one
C14_Witness ==
    /\ call.op = "set_active"
    /\ call.raised # ""
    /\ call.name = MissingName
    /\ profiles.active_name \in names(profiles)

\* C15: remove_profile(name) of a name in the collection deletes exactly that
\* entry, every other profile being untouched; for a name not in the
\* collection it raises a KeyError naming the name and leaves the collection
\* as it was.
C15_RemoveProfile ==
    [][call'.op = "remove_profile" =>
         IF call'.name \in names(profiles)
         THEN /\ call'.raised = ""
              /\ names(profiles') = names(profiles) \ {call'.name}
              /\ \A n \in names(profiles') :
                    profiles'.profiles_by_name[n] = profiles.profiles_by_name[n]
         ELSE /\ call'.raised = "KeyError: " \o call'.name
              /\ profiles' = profiles]_vars

\* A profile was removed from a collection of two, the other one is there
C15_Witness ==
    /\ call.op = "remove_profile"
    /\ call.raised = ""
    /\ names(profiles) = ProfileNames \ {call.name}

\* The profiles of with_new_profiles(other): the union of the names, the
\* other's profile taking the place of this collection's for a shared name
UnionOtherReplaces ==
    /\ names(profiles') = names(profiles) \cup names(call'.other)
    /\ \A n \in names(call'.other) :
          profiles'.profiles_by_name[n] = call'.other.profiles_by_name[n]
    /\ \A n \in names(profiles) \ names(call'.other) :
          profiles'.profiles_by_name[n] = profiles.profiles_by_name[n]

\* C20 as stated: with_new_profiles(other) gives the union of the names, the
\* other's profile replacing this collection's entirely for a shared name,
\* and the other's active name if it is not None, else this collection's.
C20_ActiveIfNotNone ==
    [][call'.op = "with_new_profiles" =>
         /\ UnionOtherReplaces
         /\ profiles'.active_name = IF call'.other.active_name # None
                                    THEN call'.other.active_name
                                    ELSE profiles.active_name]_vars

\* C20: with_new_profiles(other) gives the union of the names, the other's
\* profile replacing this collection's entirely for a shared name, and the
\* other's active name if it is neither None nor the empty string, else this
\* collection's active name.
C20_ActiveIfTruthy ==
    [][call'.op = "with_new_profiles" =>
         /\ UnionOtherReplaces
         /\ profiles'.active_name = IF call'.other.active_name \notin {None, ""}
                                    THEN call'.other.active_name
                                    ELSE profiles.active_name]_vars

\* A collection with an active profile took the profiles of one whose
\* active name is the empty string, and its active name is the one it had
C20_Witness ==
    /\ call.op = "with_new_profiles"
    /\ call.other.active_name = ""
    /\ profiles.active_name \in names(profiles) \ names(call.other)
    /\ \A n \in names(call.other) :
          profiles.profiles_by_name[n] = call.other.profiles_by_name[n]

\* C26: after update_profile, on an existing name or on a new one, the
\* settings map of the resulting profile has no key whose value is None.
C26_NoNullOverrides ==
    [][call'.op = "update_profile" =>
         LET after == profiles'.profiles_by_name[call'.profile.name].settings
         IN \A k \in DOMAIN after : after[k] # None]_vars

-----------------------------------------------------------------------------
(* Claims about nested scopes, checked under SpecCtx *)

\* The settings a reader gets in the state after a step
CurrentAfter == get_current_settings(stack, FROM_ENV_CACHE, os_environ)'

\* C3: scopes are left innermost first, and after each exit the enclosing
\* scopes are untouched and the current settings are exactly what they were
\* when the scope left was entered: the snapshot of the immediately
\* enclosing scope or, after the outermost exit, the settings current
\* before the first scope was entered (the environment being the same).
C3_ExitRestores ==
    [][call'.op = "exit" =>
         /\ stack' = SubSeq(stack, 1, Len(stack) - 1)
         /\ CurrentAfter = call'.context.before
         /\ stack' # <<>> => CurrentAfter = stack'[Len(stack')].settings
         /\ stack' = <<>> => CurrentAfter = get_settings_from_env(FROM_ENV_CACHE, os_environ)]_vars

\* The innermost of three nested scopes was left, and the scope returned to
\* has a snapshot that differs from the one left and from the one around it
C3_Witness ==
    /\ call.op = "exit"
    /\ Len(stack) = 2
    /\ call.context.settings # stack[2].settings
    /\ stack[2].settings # stack[1].settings

\* C18: when a temporary_settings scope is left, by its body ending or by
\* its body raising, the current settings are again the ones that were
\* current when it was entered; entering and leaving the scope leave
\* os.environ as it is.
C18_TemporarySettingsRestores ==
    [][/\ (call'.op = "exit" /\ call'.context.name = "temporary") =>
            /\ stack' = SubSeq(stack, 1, Len(stack) - 1)
            /\ CurrentAfter = call'.context.before
            /\ os_environ' = os_environ
       /\ call'.op = "temporary_settings" =>
            /\ SubSeq(stack', 1, Len(stack)) = stack
            /\ os_environ' = os_environ]_vars

\* A temporary_settings scope that changed a setting of an enclosing scope
\* was left because its body raised, and the enclosing scope's settings are
\* current again
C18_Witness ==
    /\ call.op = "exit"
    /\ call.raised = "error raised in the body"
    /\ call.context.name = "temporary"
    /\ call.context.settings # call.context.before
    /\ stack # <<>>
    /\ stack[Len(stack)].settings = call.context.before
    /\ \E n \in SETTING_VARIABLES : os_environ[n] # NoVar

\* The settings a reader gets in the state before a step
CurrentBefore == get_current_settings(stack, FROM_ENV_CACHE, os_environ)

\* C17: entering a context object that is entered already raises "Context
\* already entered", while a copy of it is entered as a new innermost scope;
\* exiting a context object once more than it was entered raises "Asymmetric
\* use of context"; a misuse that raises leaves the entered scopes and the
\* current settings as they were.
C17_ContextDiscipline ==
    [][/\ (call'.op = "enter" /\ ~call'.copied) =>
            /\ call'.raised = "RuntimeError: Context already entered"
            /\ stack' = stack
            /\ CurrentAfter = CurrentBefore
       /\ (call'.op = "enter" /\ call'.copied) =>
            /\ call'.raised = ""
            /\ SubSeq(stack', 1, Len(stack)) = stack
            /\ Len(stack') = Len(stack) + 1
            /\ CurrentAfter = call'.context.settings
       /\ call'.op = "exit again" =>
            /\ call'.raised = "RuntimeError: Asymmetric use of context"
            /\ stack' = stack
            /\ CurrentAfter = CurrentBefore]_vars

\* Entering the outer of two entered contexts once more raised, and the
\* inner one, whose settings differ, is still the current one
C17_Witness ==
    /\ call.op = "enter"
    /\ ~call.copied
    /\ call.raised = "RuntimeError: Context already entered"
    /\ Len(stack) = 2
    /\ call.context = stack[1]
    /\ stack[1].settings # stack[2].settings

-----------------------------------------------------------------------------
(* Claims about profile and root activation, checked under SpecRoot *)

\* A step that entered a profile's context, directly or by root activation
ProfileActivated ==
    /\ call'.op \in {"use_profile", "enter_root_settings_context"}
    /\ call'.raised = ""
    /\ Len(stack') = Len(stack) + 1

\* The value the environment, else the declared default, gives a setting
FromEnvOrDefault(k) ==
    IF os_environ[k] # NoVar THEN parse(os_environ[k]) ELSE default(k)

FileProfileNames ==
    (DOMAIN DefaultProfilesFile.profiles)
        \cup (IF user_file.exists THEN DOMAIN user_file.profiles ELSE {})

RootContexts == {i \in DOMAIN stack : stack[i].root}

\* C7: however many times enter_root_settings_context is called, use_profile
\* is called once and one context is entered: the first call that activates
\* sets GLOBAL_SETTINGS_CM, and a call made with it set changes nothing.
C7_RootActivationOnce ==
    /\ [](/\ use_profile_calls <= 1
          /\ enters = use_profile_calls
          /\ Cardinality(RootContexts) = enters
          /\ GLOBAL_SETTINGS_CM # {} <=> enters = 1
          /\ (call.op = "enter_root_settings_context" /\ call.raised = "")
                => GLOBAL_SETTINGS_CM # {})
    /\ [][(GLOBAL_SETTINGS_CM # {} /\ root_calls' # root_calls)
            => UNCHANGED <<stack, GLOBAL_SETTINGS_CM, use_profile_calls, enters>>]_vars

\* Three calls were made, the last one returned, one activation happened
C7_Witness ==
    /\ root_calls = 3
    /\ call.op = "enter_root_settings_context"
    /\ call.raised = ""
    /\ use_profile_calls = 1
    /\ enters = 1
    /\ Cardinality(RootContexts) = 1

\* The profile name root activation is to pick
RootProfileName ==
    IF Len(sys_argv) >= 3 /\ sys_argv[1] = "/prefect" /\ sys_argv[2] = "--profile"
    THEN sys_argv[3]
    ELSE IF PREFECT_PROFILE # NoVar THEN PREFECT_PROFILE
    ELSE IF user_file.exists /\ user_file.active # None THEN user_file.active
    ELSE "default"

-----------------------------------------------------------------------------
(* Claims about the user's profiles file, checked under SpecFiles *)

\* C11: while PREFECT_PROFILE overrides the active profile, load_profiles,
\* update_profile, save_profiles and save_new_active_profile never make the
\* overriding name the active name stored in the user's file, unless the
\* caller asked for it with save_new_active_profile(that name).
C11_OverrideNotPersisted ==
    [][(/\ PREFECT_PROFILE # NoVar
        /\ user_file'.exists
        /\ user_file'.active = PREFECT_PROFILE
        /\ ~(user_file.exists /\ user_file.active = PREFECT_PROFILE))
       => (call'.op = "save_new_active_profile" /\ call'.args = <<PREFECT_PROFILE>>)]_vars

\* C12: the file save_profiles writes (directly, or for update_profile and
\* save_new_active_profile) holds no profile of the built-in defaults file:
\* no "default" profile equal to the built-in one.
C12_DefaultNotSaved ==
    (call.op \in {"save_profiles", "save_new_active_profile", "update_profile"}
        /\ call.raised = "")
    => \A n \in DOMAIN user_file.profiles :
          ~(n \in DOMAIN DefaultProfilesFile.profiles
              /\ user_file.profiles[n] = DefaultProfilesFile.profiles[n])

\* C13: load_profiles on a file in which some profile has a key that is not
\* a setting name (an unknown name or a nested table) raises an "Unknown
\* setting" error naming such a key, and returns nothing: the caller's
\* collection is what it was.  A file without such a key loads every
\* profile it holds.
C13_UnknownSettingFailsLoad ==
    [][call'.op = "load_profiles" =>
         LET unknown == {k \in UNION {DOMAIN user_file.profiles[n] :
                                         n \in DOMAIN user_file.profiles} :
                            k \notin SETTING_VARIABLES}
         IN IF user_file.exists /\ unknown # {}
            THEN /\ \E k \in unknown : call'.raised = "ValueError: Unknown setting " \o k
                 /\ profiles' = profiles
            ELSE \/ call'.raised = "ValueError: Environment variable 'PREFECT_PROFILE' is set to an unknown profile name: "
                                      \o PREFECT_PROFILE
                 \/ /\ call'.raised = ""
                    /\ user_file.exists =>
                          \A n \in DOMAIN user_file.profiles :
                             /\ n \in names(profiles')
                             /\ profiles'.profiles_by_name[n].settings = user_file.profiles[n]]_vars

\* A load failed on the nested table of a file that also holds a valid
\* profile, and the collection the caller held is still there
C13_Witness ==
    /\ call.op = "load_profiles"
    /\ call.raised = "ValueError: Unknown setting nested"
    /\ "default" \in DOMAIN user_file.profiles
    /\ names(profiles) # {}

-----------------------------------------------------------------------------
(* Claims about scopes under a changing environment, checked under SpecCtxEnv *)

\* The settings a scope entered by the step mentions
Mentioned ==
    IF call'.op = "temporary_settings"
    THEN (DOMAIN call'.args[1]) \cup (DOMAIN call'.args[2]) \cup call'.args[3]
    ELSE DOMAIN call'.profile.settings

\* C19: a scope entered inside another scope, by temporary_settings or by
\* activating a profile, shadows per setting: every setting it does not
\* mention has the value it has in the enclosing scope's snapshot.
C19_InnerFallsThrough ==
    [][(/\ call'.op \in {"temporary_settings", "use_profile"}
        /\ call'.raised = ""
        /\ stack # <<>>)
       => \A k \in SETTING_VARIABLES \ Mentioned :
             stack'[Len(stack')].settings.values[k] = stack[Len(stack)].settings.values[k]]_vars

-----------------------------------------------------------------------------
(* Claims about the from-environment cache, checked under SpecCache *)

\* C22: two calls of get_settings_from_env made with the same set of
\* environment key/value pairs return the same object, whatever was resolved
\* in between and whatever order the variables were set in.
C22_SameContentSameObject ==
    [][(call'.op = "get_settings_from_env" /\ os_environ \in DOMAIN resolved)
          => call'.cache_key = resolved[os_environ]]_vars

\* C29: every call of get_settings_from_env returns a snapshot whose raw
\* values are those resolved from the environment content at the time of the
\* call, never a cached snapshot built for another content.
C29_ResolvedFromCurrentContent ==
    [][call'.op = "get_settings_from_env"
          => settings'.values = Settings(<<>>, os_environ).values]_vars

-----------------------------------------------------------------------------
(* Claims about concurrent call stacks *)

\* The snapshot resolved from the process environment
FromEnviron == Settings(<<>>, os_environ)

\* Thread t has returned from a call of `op`
Returned(t, op) == threads[t].pc = "idle" /\ threads[t].op = op

\* C23: threads racing on the first get_settings_from_env for one
\* environment only recompute: no call fails, every call returns a snapshot
\* with the values resolved from that environment, and the cache never holds
\* anything but one valid entry for that environment.
C23_FirstAccessRace ==
    /\ \A t \in Threads : threads[t].raised = ""
    /\ \A t \in Threads :
          Returned(t, "get_settings_from_env") => threads[t].result = FromEnviron
    /\ DOMAIN FROM_ENV_CACHE \subseteq {cache_key(os_environ)}
    /\ \A k \in DOMAIN FROM_ENV_CACHE : FROM_ENV_CACHE[k] = FromEnviron
    /\ (\A t \in Threads : Returned(t, "get_settings_from_env"))
          => DOMAIN FROM_ENV_CACHE = {cache_key(os_environ)}

\* Both threads missed the cache and built an object, and both have returned
C23_Witness ==
    /\ \A t \in Threads :
          /\ Returned(t, "get_settings_from_env")
          /\ threads[t].settings # NoSettings
          /\ threads[t].calls = 1
    /\ EnvNames(os_environ) # {}

\* C30: a thread's get_default_settings does not disturb the other threads:
\* a get_settings_from_env another thread makes returns the snapshot resolved
\* from the process environment, never from the emptied one, and os.environ
\* is bound to the process environment when get_default_settings returns.
C30_DefaultsDoNotDisturb ==
    /\ \A t \in Threads :
          Returned(t, "get_settings_from_env") => threads[t].result = FromEnviron
    /\ \A t \in Threads :
          (Returned(t, "get_default_settings")
             /\ \A u \in Threads \ {t} : threads[u].op # "get_default_settings"
                                        \/ threads[u].pc = "idle")
          => environ_binding = "environ"

\* The current settings thread t observes
ThreadCurrent(t) == get_current_settings(context_of(threads, t), FROM_ENV_CACHE, os_environ)

\* C24: the context stack is per call stack: a frame pushed or popped by one
\* thread (temporary_settings, profile activation, exit) never changes the
\* current settings another thread observes.
C24_StacksAreSeparate ==
    [][\A t \in Threads, u \in Threads :
          (call'.op \in {"temporary_settings", "use_profile", "exit"}
             /\ call'.thread = t /\ u # t)
          => ThreadCurrent(u)' = ThreadCurrent(u)]_vars

\* Thread t1 left a scope while t2 was inside another one, the two threads
\* observing different settings
C24_Witness ==
    /\ call.op = "exit"
    /\ call.thread = "t1"
    /\ threads["t1"].stack # <<>>
    /\ threads["t2"].stack # <<>>
    /\ ThreadCurrent("t1") # ThreadCurrent("t2")

-----------------------------------------------------------------------------
(* Claims about collections sharing Profile objects, checked under SpecAlias *)

\* C28: the collection with_new_profiles or without_profile_source returned
\* is an independent copy: no mutation made through it (update_active_profile,
\* update_profile, remove_profile, set_active) changes the profiles, their
\* settings and source, or the active name seen through the original.
C28_DerivedIsIndependent ==
    [][call'.op \in {"update_active_profile", "update_profile", "remove_profile",
                     "set_active"}
          => deref(heap, collections["original"])' = deref(heap, collections["original"])]_vars


-----------------------------------------------------------------------------
(* Claims about the logging settings, checked under SpecLogging and        *)
(* SpecLogSizes                                                            *)

\* C21: reading the logging level from a snapshot gives "DEBUG" whenever the
\* debug mode setting of the same snapshot is true, whatever level is stored,
\* and the stored level otherwise; the read changes nothing in the snapshot
C21_DebugModeOverridesLevel ==
    [][(call'.op = "value_of" /\ call'.setting = "PREFECT_LOGGING_LEVEL") =>
          /\ settings' = settings
          /\ settings.values["PREFECT_DEBUG_MODE"] => call'.value = "DEBUG"
          /\ ~settings.values["PREFECT_DEBUG_MODE"] =>
                call'.value = settings.values["PREFECT_LOGGING_LEVEL"]]_vars

\* The level read from a snapshot that stores another level with debug mode on
C21_Witness ==
    /\ call.op = "value_of"
    /\ call.setting = "PREFECT_LOGGING_LEVEL"
    /\ settings.values["PREFECT_DEBUG_MODE"]
    /\ settings.values["PREFECT_LOGGING_LEVEL"] = "ERROR"
    /\ call.value = "DEBUG"

\* The sizes of a snapshot
SizesAgree(s) ==
    s.values["PREFECT_LOGGING_ORION_MAX_LOG_SIZE"] <= s.values["PREFECT_LOGGING_ORION_BATCH_SIZE"]

\* C25: in every snapshot the maximum log size is at most the batch size
\* (they may be equal): a construction whose maximum log size exceeds the
\* batch size raises the validation error and yields no snapshot
C25_MaxLogSizeAtMostBatchSize ==
    /\ SizesAgree(settings)
    /\ \A k \in DOMAIN FROM_ENV_CACHE : SizesAgree(FROM_ENV_CACHE[k])
    /\ \A i \in DOMAIN stack : SizesAgree(stack[i].settings)
    /\ call.op \in {"get_settings_from_env", "copy_with_update", "temporary_settings"} =>
          (call.raised # "" <=>
              call.vals["PREFECT_LOGGING_ORION_MAX_LOG_SIZE"] >
                  call.vals["PREFECT_LOGGING_ORION_BATCH_SIZE"])

\* A construction refused for its sizes, in a process that also holds a
\* snapshot whose two sizes are equal
C25_Witness ==
    /\ call.op = "copy_with_update"
    /\ call.raised # ""
    /\ call.vals["PREFECT_LOGGING_ORION_MAX_LOG_SIZE"] = 5000000
    /\ settings.values["PREFECT_LOGGING_ORION_MAX_LOG_SIZE"] = 500000
    /\ settings.values["PREFECT_LOGGING_ORION_BATCH_SIZE"] = 500000

\* C27: a setting that the source leaves unset and that set_defaults names
\* (and updates does not) is set in the copy, with the set_defaults value; a
\* setting the source has set, that is neither restored nor updated, keeps
\* the source's value in the copy even when set_defaults names another value
C27_SetDefaultsOnlyFillUnset ==
    [][(call'.op = "copy_with_update" /\ call'.raised = "") =>
          \A x \in (DOMAIN call'.set_defaults) \ (DOMAIN call'.updates) :
              /\ x \notin call'.base.fields_set =>
                    /\ x \in settings'.fields_set
                    /\ settings'.values[x] = call'.set_defaults[x]
              /\ (x \in call'.base.fields_set /\ x \notin call'.restore_defaults) =>
                    /\ x \in settings'.fields_set
                    /\ settings'.values[x] = call'.base.values[x]]_vars

\* A second copy whose set_defaults names another level than the one a first
\* copy's set_defaults had set: the level of the first copy is kept
C27_Witness ==
    /\ call.op = "copy_with_update"
    /\ call.raised = ""
    /\ os_environ["PREFECT_LOGGING_LEVEL"] = NoVar
    /\ call.updates = <<>>
    /\ call.restore_defaults = {}
    /\ "PREFECT_LOGGING_LEVEL" \in DOMAIN call.set_defaults
    /\ call.set_defaults["PREFECT_LOGGING_LEVEL"] = "NOTSET"
    /\ call.base.values["PREFECT_LOGGING_LEVEL"] = "WARNING"
    /\ "PREFECT_LOGGING_LEVEL" \in call.base.fields_set
    /\ settings.values["PREFECT_LOGGING_LEVEL"] = "WARNING"

=============================================================================
